---- MODULE Spec2Model ----
(***************************************************************************)
(* A model of crypto_licensing/licensing/verification.py: the timespan     *)
(* intersection (overlap_intersect, License.overlap), License.verify,      *)
(* License / LicenseSigned construction and the check resolver.            *)
(*                                                                         *)
(* Encoding of Python values:                                              *)
(*   None (scalar)      PyNone (-1); every other scalar is >= 0            *)
(*   True (sentinel)    PyTrue (0), for the 'machine' constraint           *)
(*   False (sentinel)   PyFalse (-2), for confirm / machine_id_path        *)
(*   optional object    <<>> for None, <<x>> for the object x              *)
(*   Timestamp          a natural number, Duration a natural number        *)
(*   exception          the field exc of a result: "none" or the class     *)
(***************************************************************************)
EXTENDS Integers, Sequences, FiniteSets, TLC

VARIABLES pc, op, args, res, dns, machine_id, keyfiles, licfiles, created

vars == <<pc, op, args, res, dns, machine_id, keyfiles, licfiles, created>>

\* ------------------------------------------------------------------ bounds
MaxTime == 2

MaxLen == 2

MaxOthers == 3

MaxDeps == 2

NumKeys == 2

NumDomains == 2

NumMachines == 2

Seeds == 1..NumKeys

Domains == 1..NumDomains

Machines == 1..NumMachines

\* ---------------------------------------------------------- Python values
PyNone == -1

PyTrue == 0

PyFalse == -2

Max(a, b) == IF a >= b THEN a ELSE b

Min(a, b) == IF a <= b THEN a ELSE b

\* ------------------------------------------------------------- Timespan
\* Timespan.__init__: start and length are coerced and stored; nothing else
\* is checked, so a length without a start is a constructible Timespan.
Timespan(start, length) == [start |-> start, length |-> length]

Timestamps == 0..MaxTime

Durations == 0..MaxLen

Timespans == {Timespan(s, l) : s \in Timestamps \cup {PyNone}, l \in Durations \cup {PyNone}}

\* result of overlap_intersect: the 4-tuple, or the exception raised
Intersected(start, length, begun, ended) ==
    [exc |-> "none", start |-> start, length |-> length, begun |-> begun, ended |-> ended]

IntersectRaised(e) ==
    [exc |-> e, start |-> PyNone, length |-> PyNone, begun |-> PyNone, ended |-> PyNone]

\* overlap_intersect keeping the later of the two ends
overlap_intersect_longest(start, length, other) ==
    IF start = PyNone
    THEN IF length # PyNone THEN IntersectRaised("AssertionError")
         ELSE IF other.start = PyNone
              THEN IF other.length # PyNone THEN IntersectRaised("AssertionError")
                   ELSE Intersected(PyNone, PyNone, PyNone, PyNone)
              ELSE IF other.length = PyNone
                   THEN Intersected(other.start, other.length, other.start, PyNone)
                   ELSE Intersected(other.start, other.length, other.start, other.start + other.length)
    ELSE IF other.start = PyNone
    THEN IF other.length # PyNone THEN IntersectRaised("AssertionError")
         ELSE IF length = PyNone
              THEN Intersected(start, length, start, PyNone)
              ELSE Intersected(start, length, start, start + length)
    ELSE LET begun == Max(start, other.start)
         IN  IF length = PyNone /\ other.length = PyNone
             THEN Intersected(start, length, begun, PyNone)
             ELSE LET ended == IF other.length = PyNone THEN start + length
                               ELSE IF length = PyNone THEN other.start + other.length
                               ELSE Max(start + length, other.start + other.length)
                  IN  Intersected(begun, IF ended <= begun THEN 0 ELSE ended - begun, begun, ended)

overlap_intersect(start, length, other) ==
    IF start = PyNone
    THEN IF length # PyNone THEN IntersectRaised("AssertionError")
         ELSE IF other.start = PyNone
              THEN IF other.length # PyNone THEN IntersectRaised("AssertionError")
                   ELSE Intersected(PyNone, PyNone, PyNone, PyNone)
              ELSE IF other.length = PyNone
                   THEN Intersected(other.start, other.length, other.start, PyNone)
                   ELSE Intersected(other.start, other.length, other.start, other.start + other.length)
    ELSE IF other.start = PyNone
    THEN IF other.length # PyNone THEN IntersectRaised("AssertionError")
         ELSE IF length = PyNone
              THEN Intersected(start, length, start, PyNone)
              ELSE Intersected(start, length, start, start + length)
    ELSE LET begun == Max(start, other.start)
         IN  IF length = PyNone /\ other.length = PyNone
             THEN Intersected(start, length, begun, PyNone)
             ELSE LET ended == IF other.length = PyNone THEN start + length
                               ELSE IF length = PyNone THEN other.start + other.length
                               ELSE Min(start + length, other.start + other.length)
                  IN  Intersected(begun, IF ended <= begun THEN 0 ELSE ended - begun, begun, ended)

\* License.start / License.length: "self.timespan and self.timespan.start"
License_start(L) == IF L.timespan = <<>> THEN PyNone ELSE L.timespan[1].start

License_length(L) == IF L.timespan = <<>> THEN PyNone ELSE L.timespan[1].length

\* The loop of License.overlap from the i-th other on; at is the index of the
\* other at which the exception was raised (0: none raised).
RECURSIVE overlap_from(_, _, _, _)
overlap_from(start, length, others, i) ==
    IF i > Len(others)
    THEN [exc |-> "none", start |-> start, length |-> length, at |-> 0]
    ELSE LET r == overlap_intersect(start, length, others[i])
         IN  IF r.exc # "none"
             THEN [exc |-> r.exc, start |-> PyNone, length |-> PyNone, at |-> i]
             ELSE IF r.length # PyNone /\ r.length = 0
             THEN [exc |-> "LicenseIncompatibility", start |-> PyNone, length |-> PyNone, at |-> i]
             ELSE overlap_from(r.start, r.length, others, i + 1)

License_overlap(L, others) == overlap_from(License_start(L), License_length(L), others, 1)

\* ------------------------------------------------- text and key material
\* A value that is bytes or text is [form, val]: form "none" is None, "bytes"
\* is a bytes object val, "b64" is the base-64 text of val, "blank" is text
\* of characters outside the base-64 alphabet (it decodes to b''), "junk" is
\* text that no codec decodes.
NoText == [form |-> "none", val |-> <<>>]

Bytes(b) == [form |-> "bytes", val |-> b]

BlankText == [form |-> "blank", val |-> <<>>]

JunkText == [form |-> "junk", val |-> <<>>]

\* into_b64: None remains None, bytes become their base-64 text
into_b64(b) == IF b.form = "none" THEN NoText ELSE [form |-> "b64", val |-> b.val]

\* Python truth of a bytes-or-text value: None, b'' and '' are false
Truthy(t) ==
    CASE t.form = "none" -> FALSE
      [] t.form \in {"bytes", "b64", "hex", "str"} -> t.val # <<>>
      [] OTHER -> TRUE

\* into_bytes( text, ('base64',) ): "if not text: return None", text is
\* decoded, bytes pass through, anything else raises RuntimeError
into_bytes(t) ==
    IF ~Truthy(t) THEN [exc |-> "none", val |-> NoText]
    ELSE CASE t.form \in {"bytes", "b64"} -> [exc |-> "none", val |-> Bytes(t.val)]
           [] t.form = "blank" -> [exc |-> "none", val |-> Bytes(<<>>)]
           [] OTHER -> [exc |-> "RuntimeError", val |-> NoText]

\* Key material is [kind, vk, sk]: kind "none" is None, "vk" a 32-byte public
\* key vk, "sk" a 64-byte signing key sk = <<seed, upper half>>, "keypair" an
\* ed25519.Keypair( vk, sk ).
NoKey == [kind |-> "none", vk |-> PyNone, sk |-> <<>>]

PubKey(vk) == [kind |-> "vk", vk |-> vk, sk |-> <<>>]

SigKey(sk) == [kind |-> "sk", vk |-> PyNone, sk |-> sk]

\* into_keys: the (vk, sk) found in the key material
into_keys(k) ==
    CASE k.kind = "keypair" -> [vk |-> k.vk, sk |-> k.sk]
      [] k.kind = "sk" -> [vk |-> k.sk[2], sk |-> k.sk]
      [] k.kind = "vk" -> [vk |-> k.vk, sk |-> <<>>]
      [] OTHER -> [vk |-> PyNone, sk |-> <<>>]

\* ------------------------------------------------------------- Ed25519
\* the public key derived from a 32-byte seed
VkOf(seed) == 10 + seed

\* ed25519.crypto_sign_keypair( seed ): sk is seed || vk
crypto_sign_keypair(seed) ==
    [kind |-> "keypair", vk |-> VkOf(seed), sk |-> <<seed, VkOf(seed)>>]

\* ed25519.crypto_sign( message, sk )[:64]: the signature names the seed and
\* the public half of sk it was made with, and the message
crypto_sign(message, sk) == <<sk[1], sk[2], message>>

\* ed25519.crypto_sign_open( signature + message, pubkey ) succeeds
crypto_sign_open(signature, message, pubkey) ==
    /\ Len(signature) = 3
    /\ VkOf(signature[1]) = pubkey
    /\ signature[2] = pubkey
    /\ signature[3] = message

\* ------------------------------------------------------------- Agent
Agent(pubkey, domain) == [pubkey |-> pubkey, domain |-> domain]

\* an event of a verification: a DKIM lookup or a read of the machine id,
\* with the step of the outermost License.verify in which it happened
Event(ev, key) == [ev |-> ev, key |-> key, step |-> 0]

Tag(trace, n) == [i \in 1..Len(trace) |-> [trace[i] EXCEPT !.step = n]]

\* Agent.pubkey_query: the key in the one DKIM record of the agent's domain
pubkey_query(agent) ==
    IF agent.domain = PyNone
    THEN [exc |-> "AssertionError", key |-> PyNone, trace |-> <<>>]
    ELSE IF dns[agent.domain] = PyNone
    THEN [exc |-> "AssertionError", key |-> PyNone, trace |-> <<Event("dkim", agent.domain)>>]
    ELSE [exc |-> "none", key |-> dns[agent.domain], trace |-> <<Event("dkim", agent.domain)>>]

\* machine_UUIDv4( machine_id_path ): the UUID of the local machine
machine_UUIDv4(machine_id_path) == machine_id

\* ------------------------------------------------------------- License
License(author, client, dependencies, machine, timespan) ==
    [author |-> author, client |-> client, dependencies |-> dependencies,
     machine |-> machine, timespan |-> timespan]

LicenseSigned(license, signature) == [license |-> license, signature |-> signature]

NoConstraints == [timespan |-> <<>>, machine |-> PyNone, dependencies |-> <<>>]

\* the attributes of a Serializable that Serializable.keys yields: those that
\* are not None (no attribute of a License or an Agent has an empty() here)
AgentKeys(a) == {k \in {"pubkey", "domain"} : a[k] # PyNone}

TimespanKeys(t) == {k \in {"start", "length"} : t[k] # PyNone}

\* as LicenseKeys, but an empty list of dependencies is omitted as None is
LicenseKeys_truthy(L) ==
    {"author"}
    \cup (IF L.client = <<>> THEN {} ELSE {"client"})
    \cup (IF L.dependencies \in {<<>>, << <<>> >>} THEN {} ELSE {"dependencies"})
    \cup (IF L.machine = PyNone THEN {} ELSE {"machine"})
    \cup (IF L.timespan = <<>> THEN {} ELSE {"timespan"})

LicenseKeys(L) ==
    {"author"}
    \cup (IF L.client = <<>> THEN {} ELSE {"client"})
    \cup (IF L.dependencies = <<>> THEN {} ELSE {"dependencies"})
    \cup (IF L.machine = PyNone THEN {} ELSE {"machine"})
    \cup (IF L.timespan = <<>> THEN {} ELSE {"timespan"})

\* Serializable.serialize of a License: the sorted-key JSON of its keys
RECURSIVE serialize(_)
serialize(L) ==
    [k \in LicenseKeys(L) |->
        CASE k = "author" -> [a \in AgentKeys(L.author) |-> L.author[a]]
          [] k = "client" -> [a \in AgentKeys(L.client[1]) |-> L.client[1][a]]
          [] k = "dependencies" ->
                [i \in 1..Len(L.dependencies[1]) |->
                    [license |-> serialize(L.dependencies[1][i].license),
                     signature |-> into_b64(Bytes(L.dependencies[1][i].signature))]]
          [] k = "machine" -> L.machine
          [] OTHER -> [a \in TimespanKeys(L.timespan[1]) |-> L.timespan[1][a]]]

\* Serializable.sign( sigkey, pubkey )
Serializable_sign(L, sigkey, pubkey) ==
    LET sk == into_keys(sigkey).sk
    IN  IF sk = <<>> THEN [exc |-> "AssertionError", signature |-> <<>>]
        ELSE IF pubkey # PyNone /\ crypto_sign_keypair(sk[1]).vk # pubkey
        THEN [exc |-> "AssertionError", signature |-> <<>>]
        ELSE [exc |-> "none", signature |-> crypto_sign(serialize(L), sk)]

\* Serializable.verify( pubkey, signature )
Serializable_verify(L, pubkey, signature) ==
    LET sig == into_bytes(signature)
    IN  IF sig.exc # "none" THEN sig.exc
        ELSE IF pubkey = PyNone \/ ~Truthy(sig.val) THEN "AssertionError"
        ELSE IF ~crypto_sign_open(sig.val.val, serialize(L), pubkey) THEN "ValueError"
        ELSE "none"

\* ------------------------------------------------------ License.verify
\* The result of a verification: the exception raised ("none": it returned),
\* the step of License.verify that raised it, the index of the dependency or
\* timespan it was raised for, the events, and the constraints returned.
Verified(trace, constraints) ==
    [exc |-> "none", step |-> 0, at |-> 0, trace |-> trace, constraints |-> constraints]

Raised(exc, step, at, trace) ==
    [exc |-> exc, step |-> step, at |-> at, trace |-> trace, constraints |-> NoConstraints]

RECURSIVE License_verify(_, _, _, _, _, _, _)
RECURSIVE LicenseSigned_init(_, _, _, _, _, _)
RECURSIVE License_init(_, _, _, _)
RECURSIVE verify_dependencies(_, _, _, _)
RECURSIVE init_dependencies(_, _, _, _)

\* LicenseSigned.verify
LicenseSigned_verify(ls, author_pubkey, signature, confirm, machine_id_path, dependencies, constraints) ==
    License_verify(ls.license,
                   IF author_pubkey.kind # "none" THEN author_pubkey ELSE PubKey(ls.license.author.pubkey),
                   IF Truthy(signature) THEN signature ELSE Bytes(ls.signature),
                   confirm, machine_id_path, dependencies, constraints)

\* step 1 of License.verify: the author_pubkey supplied is the author's
verify_author(L, author_pubkey) ==
    IF author_pubkey.kind = "none" THEN "none"
    ELSE IF into_keys(author_pubkey).vk = PyNone THEN "AssertionError"
    ELSE IF into_keys(author_pubkey).vk # L.author.pubkey THEN "LicenseIncompatibility"
    ELSE "none"

\* verify_confirm testing "if confirm:", so that an unset confirm skips the lookup
verify_confirm_if_set(L, confirm) ==
    IF confirm = PyTrue
    THEN LET avkey == pubkey_query(L.author)
         IN  IF avkey.exc # "none" THEN [exc |-> avkey.exc, trace |-> avkey.trace]
             ELSE IF avkey.key # L.author.pubkey
             THEN [exc |-> "LicenseIncompatibility", trace |-> avkey.trace]
             ELSE [exc |-> "none", trace |-> avkey.trace]
    ELSE [exc |-> "none", trace |-> <<>>]

\* step 2: the author's key is the one published in DKIM, unless confirm is False
verify_confirm(L, confirm) ==
    IF confirm = PyTrue \/ confirm = PyNone
    THEN LET avkey == pubkey_query(L.author)
         IN  IF avkey.exc # "none" THEN [exc |-> avkey.exc, trace |-> avkey.trace]
             ELSE IF avkey.key # L.author.pubkey
             THEN [exc |-> "LicenseIncompatibility", trace |-> avkey.trace]
             ELSE [exc |-> "none", trace |-> avkey.trace]
    ELSE [exc |-> "none", trace |-> <<>>]

\* step 3: a signature that is supplied (and not empty) is the author's
verify_signature(L, signature) ==
    IF Truthy(signature) /\ Serializable_verify(L, L.author.pubkey, signature) # "none"
    THEN "LicenseIncompatibility"
    ELSE "none"

\* client_is_author comparing the client with the dependency's own author
client_is_own_author(prov, L) ==
    \/ prov.license.client = <<>>
    \/ prov.license.client[1].pubkey = PyNone
    \/ prov.license.client[1].pubkey = prov.license.author.pubkey

\* the client of a dependency, if any, is the author of the License
client_is_author(prov, L) ==
    \/ prov.license.client = <<>>
    \/ prov.license.client[1].pubkey = PyNone
    \/ prov.license.client[1].pubkey = L.author.pubkey

\* as dependency_verified, but a failure of a later dependency is reported first
dependency_verified_rest_first(L, i, prov, v, rest) ==
    IF rest.exc # "none" THEN [rest EXCEPT !.trace = prov.trace \o v.trace \o @]
    ELSE IF v.exc # "none" \/ ~client_is_author(prov.val, L)
    THEN [exc |-> "LicenseIncompatibility", at |-> i, trace |-> prov.trace \o v.trace]
    ELSE [rest EXCEPT !.trace = prov.trace \o v.trace \o @]

\* step 4, lines 1019-1027: the dependency prov verified as v, and its client
dependency_verified(L, i, prov, v, rest) ==
    IF v.exc # "none" \/ ~client_is_author(prov.val, L)
    THEN [exc |-> "LicenseIncompatibility", at |-> i, trace |-> prov.trace \o v.trace]
    ELSE [rest EXCEPT !.trace = prov.trace \o v.trace \o @]

\* step 4, line 1018: the dependency constructed as prov (its exception is not caught)
dependency_constructed(L, i, confirm, machine_id_path, prov) ==
    IF prov.exc # "none" THEN [exc |-> prov.exc, at |-> i, trace |-> prov.trace]
    ELSE dependency_verified(L, i, prov,
                             LicenseSigned_verify(prov.val, NoKey, NoText, confirm, machine_id_path,
                                                  FALSE, NoConstraints),
                             verify_dependencies(L, i + 1, confirm, machine_id_path))

\* step 4: the loop over self.dependencies, from the i-th on
verify_dependencies(L, i, confirm, machine_id_path) ==
    IF L.dependencies = <<>> \/ i > Len(L.dependencies[1])
    THEN [exc |-> "none", at |-> 0, trace |-> <<>>]
    ELSE dependency_constructed(L, i, confirm, machine_id_path,
                                LicenseSigned_init(L.dependencies[1][i].license, FALSE, NoKey,
                                                   into_b64(Bytes(L.dependencies[1][i].signature)),
                                                   confirm, machine_id_path))

\* the start and length of each of the others of the timespan step
dependency_timespans(L) ==
    IF L.dependencies = <<>> THEN <<>>
    ELSE [i \in 1..Len(L.dependencies[1]) |->
            Timespan(License_start(L.dependencies[1][i].license),
                     License_length(L.dependencies[1][i].license))]

\* step 5, the outcome o of License.overlap
timespan_overlapped(constraints, o) ==
    IF o.exc # "none"
    THEN [exc |-> o.exc, at |-> o.at, constraints |-> constraints]
    ELSE [exc |-> "none", at |-> 0,
          constraints |-> IF constraints.timespan # <<>>
                          THEN [constraints EXCEPT !.timespan = <<Timespan(o.start, o.length)>>]
                          ELSE constraints]

\* step 5: the timespans of the License, its dependencies and the constraint overlap
verify_timespan(L, constraints) ==
    timespan_overlapped(constraints,
                        License_overlap(L, dependency_timespans(L) \o constraints.timespan))

\* verify_machine that reads and compares the machine id also when
\* machine_id_path is False
verify_machine_always(L, machine_id_path, constraints) ==
    IF L.machine # PyNone \/ constraints.machine # PyNone
    THEN LET machine_uuid == machine_UUIDv4(machine_id_path)
             machine_cons == constraints.machine
             read == <<Event("machine_id", PyNone)>>
         IN  IF L.machine \notin {PyNone, PyTrue} /\ L.machine # machine_uuid
             THEN [exc |-> "LicenseIncompatibility", trace |-> read, constraints |-> constraints]
             ELSE IF machine_cons \notin {PyNone, PyTrue} /\ machine_cons # machine_uuid
             THEN [exc |-> "LicenseIncompatibility", trace |-> read, constraints |-> constraints]
             ELSE [exc |-> "none", trace |-> read,
                   constraints |-> IF machine_cons # PyNone
                                   THEN [constraints EXCEPT !.machine = machine_uuid]
                                   ELSE constraints]
    ELSE [exc |-> "none", trace |-> <<>>, constraints |-> constraints]

\* step 6: the machine of the License and of the constraints is this machine
verify_machine(L, machine_id_path, constraints) ==
    IF machine_id_path # PyFalse
       /\ (L.machine # PyNone \/ constraints.machine \notin {PyNone, PyFalse})
    THEN LET machine_uuid == machine_UUIDv4(machine_id_path)
             machine_cons == constraints.machine
             read == <<Event("machine_id", PyNone)>>
         IN  IF L.machine \notin {PyNone, PyTrue} /\ L.machine # machine_uuid
             THEN [exc |-> "LicenseIncompatibility", trace |-> read, constraints |-> constraints]
             ELSE IF machine_cons \notin {PyNone, PyTrue} /\ machine_cons # machine_uuid
             THEN [exc |-> "LicenseIncompatibility", trace |-> read, constraints |-> constraints]
             ELSE [exc |-> "none", trace |-> read,
                   constraints |-> IF machine_cons # PyNone
                                   THEN [constraints EXCEPT !.machine = machine_uuid]
                                   ELSE constraints]
    ELSE [exc |-> "none", trace |-> <<>>, constraints |-> constraints]

\* step 7, the LicenseSigned ls made of the License and the signature
return_signed(constraints, ls) ==
    IF ls.exc # "none"
    THEN [exc |-> ls.exc, trace |-> ls.trace, constraints |-> constraints]
    ELSE [exc |-> "none", trace |-> ls.trace,
          constraints |-> [constraints EXCEPT !.dependencies = << <<ls.val>> >>]]

\* step 7: with dependencies=True the LicenseSigned joins the constraints
verify_return(L, signature, confirm, machine_id_path, dependencies, constraints) ==
    IF dependencies
    THEN IF signature.form = "none"
         THEN [exc |-> "AssertionError", trace |-> <<>>, constraints |-> constraints]
         ELSE return_signed(constraints,
                            LicenseSigned_init(L, FALSE, NoKey, signature, confirm, machine_id_path))
    ELSE [exc |-> "none", trace |-> <<>>, constraints |-> constraints]

\* verify_steps with the machine step before the timespan step
verify_steps_machine_first(s1, s2, s3, s4, s5, s6, s7) ==
    LET t2 == Tag(s2.trace, 2)
        t4 == t2 \o Tag(s4.trace, 4)
        t6 == t4 \o Tag(s6.trace, 6)
        t7 == t6 \o Tag(s7.trace, 7)
    IN  IF s1 # "none" THEN Raised(s1, 1, 0, <<>>)
        ELSE IF s2.exc # "none" THEN Raised(s2.exc, 2, 0, t2)
        ELSE IF s3 # "none" THEN Raised(s3, 3, 0, t2)
        ELSE IF s4.exc # "none" THEN Raised(s4.exc, 4, s4.at, t4)
        ELSE IF s6.exc # "none" THEN Raised(s6.exc, 6, 0, t6)
        ELSE IF s5.exc # "none" THEN Raised(s5.exc, 5, s5.at, t6)
        ELSE IF s7.exc # "none" THEN Raised(s7.exc, 7, 0, t7)
        ELSE Verified(t7, s7.constraints)

\* License.verify, the outcome of its steps in their order: s1..s7 are what
\* each step does if it is reached, the first that raises ends the method
verify_steps(s1, s2, s3, s4, s5, s6, s7) ==
    LET t2 == Tag(s2.trace, 2)
        t4 == t2 \o Tag(s4.trace, 4)
        t6 == t4 \o Tag(s6.trace, 6)
        t7 == t6 \o Tag(s7.trace, 7)
    IN  IF s1 # "none" THEN Raised(s1, 1, 0, <<>>)
        ELSE IF s2.exc # "none" THEN Raised(s2.exc, 2, 0, t2)
        ELSE IF s3 # "none" THEN Raised(s3, 3, 0, t2)
        ELSE IF s4.exc # "none" THEN Raised(s4.exc, 4, s4.at, t4)
        ELSE IF s5.exc # "none" THEN Raised(s5.exc, 5, s5.at, t4)
        ELSE IF s6.exc # "none" THEN Raised(s6.exc, 6, 0, t6)
        ELSE IF s7.exc # "none" THEN Raised(s7.exc, 7, 0, t7)
        ELSE Verified(t7, s7.constraints)

\* steps 7 on: the constraints of step 6 are those step 7 returns
verify_from_return(L, signature, confirm, machine_id_path, dependencies, s1, s2, s3, s4, s5, s6) ==
    verify_steps(s1, s2, s3, s4, s5, s6,
                 verify_return(L, signature, confirm, machine_id_path, dependencies, s6.constraints))

\* steps 6 on: the constraints of step 5 are those step 6 checks
verify_from_machine(L, signature, confirm, machine_id_path, dependencies, s1, s2, s3, s4, s5) ==
    verify_from_return(L, signature, confirm, machine_id_path, dependencies, s1, s2, s3, s4, s5,
                       verify_machine(L, machine_id_path, s5.constraints))

\* License.verify
License_verify(L, author_pubkey, signature, confirm, machine_id_path, dependencies, constraints) ==
    verify_from_machine(L, signature, confirm, machine_id_path, dependencies,
                        verify_author(L, author_pubkey),
                        verify_confirm(L, confirm),
                        verify_signature(L, signature),
                        verify_dependencies(L, 1, confirm, machine_id_path),
                        verify_timespan(L, constraints))

\* ---------------------------------------------- construction of Licenses
\* the outcome of a construction: the exception raised, the object, the events
Made(exc, val, trace) == [exc |-> exc, val |-> val, trace |-> trace]

\* Agent.__init__, the key obtained from DKIM
agent_queried(agent, q) == Made(q.exc, [agent EXCEPT !.pubkey = q.key], q.trace)

\* Agent.__init__: without a pubkey the key is obtained from DKIM
Agent_init(agent) ==
    IF agent.pubkey # PyNone THEN Made("none", agent, <<>>)
    ELSE IF agent.domain = PyNone THEN Made("AssertionError", agent, <<>>)
    ELSE agent_queried(agent, pubkey_query(agent))

\* an optional attribute that is present
Present(m) == Made(m.exc, <<m.val>>, m.trace)

\* License.__init__, line 897: the dependency prov followed by the rest
dependencies_made(prov, rest) ==
    Made(rest.exc, <<prov.val>> \o rest.val, prov.trace \o rest.trace)

dependency_made(deps, i, confirm, machine_id_path, prov) ==
    IF prov.exc # "none" THEN Made(prov.exc, <<>>, prov.trace)
    ELSE dependencies_made(prov, init_dependencies(deps, i + 1, confirm, machine_id_path))

\* License.__init__, the dependencies: a dict becomes a LicenseSigned
init_dependencies(deps, i, confirm, machine_id_path) ==
    IF i > Len(deps) THEN Made("none", <<>>, <<>>)
    ELSE dependency_made(deps, i, confirm, machine_id_path,
                         LicenseSigned_init(deps[i].license, TRUE, NoKey, deps[i].signature,
                                            confirm, machine_id_path))

\* License.__init__, line 913: the License L made of its attributes is verified as v
License_made(author, client, deps, L, v) ==
    IF author.exc # "none" THEN Made(author.exc, L, author.trace)
    ELSE IF client.exc # "none" THEN Made(client.exc, L, author.trace \o client.trace)
    ELSE IF deps.exc # "none"
    THEN Made(deps.exc, L, author.trace \o client.trace \o deps.trace)
    ELSE [exc |-> v.exc, val |-> L, step |-> v.step, at |-> v.at,
          trace |-> author.trace \o client.trace \o deps.trace \o v.trace]

License_attributes(F, confirm, machine_id_path, author, client, deps) ==
    License_made(author, client, deps,
                 License(author.val, client.val, deps.val, F.machine, F.timespan),
                 License_verify(License(author.val, client.val, deps.val, F.machine, F.timespan),
                                NoKey, NoText, confirm, machine_id_path, FALSE, NoConstraints))

\* License.__init__( author, client, dependencies, machine, timespan,
\* machine_id_path, confirm ); dicts is TRUE when the dependencies are dicts
\* (as read from a file) and FALSE when they are LicenseSigned objects.
License_init(F, dicts, confirm, machine_id_path) ==
    License_attributes(F, confirm, machine_id_path,
        Agent_init(F.author),
        IF F.client = <<>> THEN Made("none", <<>>, <<>>) ELSE Present(Agent_init(F.client[1])),
        IF F.dependencies = <<>> THEN Made("none", <<>>, <<>>)
        ELSE IF ~dicts THEN Made("none", F.dependencies, <<>>)
        ELSE Present(init_dependencies(F.dependencies[1], 1, confirm, machine_id_path)))

\* LicenseSigned.__init__, line 1276: the LicenseSigned self is verified as v
LicenseSigned_made(author_sigkey, signature, lic, signed, self, v) ==
    IF lic.exc # "none" THEN Made(lic.exc, self, lic.trace)
    ELSE IF ~Truthy(signature) /\ author_sigkey.kind = "none"
    THEN Made("AssertionError", self, lic.trace)
    ELSE IF signed.exc # "none" THEN Made(signed.exc, self, lic.trace)
    ELSE Made(v.exc, self, lic.trace \o v.trace)

\* LicenseSigned.__init__, lines 1262-1272: the signature made or decoded
signature_decoded(b) == [exc |-> b.exc, signature |-> b.val.val]

LicenseSigned_signed(author_sigkey, signature, confirm, machine_id_path, lic, signed) ==
    LicenseSigned_made(author_sigkey, signature, lic, signed,
                       LicenseSigned(lic.val, signed.signature),
                       LicenseSigned_verify(LicenseSigned(lic.val, signed.signature), author_sigkey,
                                            NoText, confirm, machine_id_path, FALSE, NoConstraints))

LicenseSigned_license(author_sigkey, signature, confirm, machine_id_path, lic) ==
    LicenseSigned_signed(author_sigkey, signature, confirm, machine_id_path, lic,
                         IF author_sigkey.kind # "none" /\ ~Truthy(signature)
                         THEN Serializable_sign(lic.val, author_sigkey, lic.val.author.pubkey)
                         ELSE signature_decoded(into_bytes(signature)))

\* LicenseSigned.__init__( license, author_sigkey, signature, confirm,
\* machine_id_path ); dict is TRUE when license is a dict, FALSE for a License
LicenseSigned_init(license, dict, author_sigkey, signature, confirm, machine_id_path) ==
    LicenseSigned_license(author_sigkey, signature, confirm, machine_id_path,
                          IF dict THEN License_init(license, TRUE, confirm, machine_id_path)
                          ELSE Made("none", license, <<>>))

\* ------------------------------------------- KeypairPlaintext, KeypairEncrypted
\* A str is [form |-> "str", val |-> its characters]; bytes hold 32-byte
\* words, so a 32-byte seed or public key is <<x>>, a 64-byte signing key
\* <<seed, upper half>>, a 12-byte salt <<n>> and a 48-byte ciphertext a
\* sequence of three.
Str(chars) == [form |-> "str", val |-> chars]

Hex(b) == [form |-> "hex", val |-> b]

\* into_hex: None remains None, bytes become their hex text
into_hex(b) == IF b.form = "none" THEN NoText ELSE Hex(b.val)

\* into_bytes( text, ('hex',) )
into_bytes_hex(t) ==
    IF ~Truthy(t) THEN [exc |-> "none", val |-> NoText]
    ELSE CASE t.form \in {"bytes", "hex"} -> [exc |-> "none", val |-> Bytes(t.val)]
           [] OTHER -> [exc |-> "RuntimeError", val |-> NoText]

\* an ed25519.Keypair passed as key material
KeypairObject(seed) == [form |-> "keypair", val |-> crypto_sign_keypair(seed).sk]

\* what os.urandom( 12 ) may draw
Salts == {1, 2}

\* str.lower()
lower(chars) == [n \in 1..Len(chars) |-> IF chars[n] = "A" THEN "a" ELSE chars[n]]

\* KeypairEncrypted.key: sha256 over salt, username.lower() and password,
\* one after the other; the digest is modelled by the bytes hashed
KeypairEncrypted_key(salt, username, password) ==
    <<salt, lower(username.val) \o password.val>>

\* ChaCha20Poly1305( key ).encrypt( nonce, plaintext ): the 48 bytes name the
\* key and nonce that open them
ChaCha20Poly1305_encrypt(key, nonce, plaintext) == <<key, nonce, plaintext>>

\* ChaCha20Poly1305( key ).decrypt( nonce, ciphertext ) succeeds
ChaCha20Poly1305_decrypt(key, nonce, ciphertext) ==
    /\ Len(ciphertext) = 3
    /\ ciphertext[1] = key
    /\ ciphertext[2] = nonce

\* the result of a Keypair... constructor or of into_keypair
Keyed(exc, val) == [exc |-> exc, val |-> val]

KeypairEncrypted(salt, ciphertext) == [salt |-> salt, ciphertext |-> ciphertext]

NoKeypair == KeypairEncrypted(<<>>, <<>>)

\* KeypairEncrypted.into_keypair( username, password )
KeypairEncrypted_into_keypair(self, username, password) ==
    IF ~(Truthy(username) /\ Truthy(password)) THEN Keyed("AssertionError", NoKey)
    ELSE IF ~ChaCha20Poly1305_decrypt(KeypairEncrypted_key(self.salt, username, password),
                                      self.salt, self.ciphertext)
    THEN Keyed("KeypairCredentialError", NoKey)
    ELSE Keyed("none", crypto_sign_keypair(self.ciphertext[3]))

\* the key material of sk: of a Keypair its sk, else the bytes decoded
sk_bytes(sk) ==
    IF sk.form = "keypair" THEN [exc |-> "none", val |-> Bytes(sk.val)] ELSE into_bytes(sk)

\* KeypairEncrypted.__init__, lines 1405-1421: the seed of the signing key
\* encrypted under the credentials
KeypairEncrypted_encrypt(skb, vkb, salt, username, password) ==
    IF skb.exc # "none" THEN Keyed(skb.exc, NoKeypair)
    ELSE IF vkb.exc # "none" THEN Keyed(vkb.exc, NoKeypair)
    ELSE IF skb.val.val = <<>> THEN Keyed("ValueError", NoKeypair)
    ELSE IF Truthy(vkb.val) /\ vkb.val.val # <<VkOf(skb.val.val[1])>>
    THEN Keyed("AssertionError", NoKeypair)
    ELSE Keyed("none",
               KeypairEncrypted(salt,
                   ChaCha20Poly1305_encrypt(KeypairEncrypted_key(salt, username, password),
                                            salt, skb.val.val[1])))

\* lines 1392-1399: the ciphertext supplied
KeypairEncrypted_supplied(salt, ct) ==
    IF ct.exc # "none" THEN Keyed(ct.exc, NoKeypair)
    ELSE IF Len(ct.val.val) # 3 THEN Keyed("AttributeError", NoKeypair)
    ELSE Keyed("none", KeypairEncrypted(salt, ct.val.val))

\* lines 1383-1421, with the salt decoded or drawn
KeypairEncrypted_salted(sk, vk, salt, ciphertext, username, password) ==
    IF salt.exc # "none" THEN Keyed(salt.exc, NoKeypair)
    ELSE IF Len(salt.val.val) # 1 THEN Keyed("AssertionError", NoKeypair)
    ELSE IF Truthy(ciphertext)
    THEN KeypairEncrypted_supplied(salt.val.val, into_bytes_hex(ciphertext))
    ELSE KeypairEncrypted_encrypt(sk_bytes(sk), into_bytes(vk), salt.val.val, username, password)

\* KeypairEncrypted.__init__; (seed, urandom) are what author() and
\* os.urandom( 12 ) draw when they are called
KeypairEncrypted_init(sk, vk, salt, ciphertext, username, password, seed, urandom) ==
    IF (Truthy(ciphertext) /\ Truthy(salt)) = (Truthy(password) /\ Truthy(username))
    THEN Keyed("AssertionError", NoKeypair)
    ELSE IF ~Truthy(salt) /\ Truthy(ciphertext) THEN Keyed("AssertionError", NoKeypair)
    ELSE KeypairEncrypted_salted(
             IF ~(Truthy(ciphertext) /\ Truthy(salt)) /\ ~Truthy(sk) THEN KeypairObject(seed) ELSE sk,
             vk,
             IF Truthy(salt) THEN into_bytes_hex(salt)
             ELSE [exc |-> "none", val |-> Bytes(<<urandom>>)],
             ciphertext, username, password)

KeypairPlaintext(sk, vk) == [sk |-> sk, vk |-> vk]

NoPlaintext == KeypairPlaintext(<<>>, <<>>)

\* as KeypairPlaintext_into_keypair, without the check of the public key
KeypairPlaintext_into_keypair_unchecked(sk, vk) ==
    Keyed("none", crypto_sign_keypair(sk[1]))

\* KeypairPlaintext.into_keypair, of the key material (sk, vk) of self: vk
\* is <<>> when self.vk is None
KeypairPlaintext_into_keypair(sk, vk) ==
    IF vk # <<>> /\ vk # <<VkOf(sk[1])>> THEN Keyed("AssertionError", NoKey)
    ELSE Keyed("none", crypto_sign_keypair(sk[1]))

\* line 1334: self.vk, self.sk = self.into_keypair()
KeypairPlaintext_assigned(keypair) ==
    IF keypair.exc # "none" THEN Keyed(keypair.exc, NoPlaintext)
    ELSE Keyed("none", KeypairPlaintext(keypair.val.sk, <<keypair.val.vk>>))

\* lines 1318-1334, with sk and vk decoded
KeypairPlaintext_decoded(skb, vk, vkb) ==
    IF skb.exc # "none" THEN Keyed(skb.exc, NoPlaintext)
    ELSE IF skb.val.form = "none" THEN Keyed("TypeError", NoPlaintext)
    ELSE IF Len(skb.val.val) \notin {1, 2} THEN Keyed("AssertionError", NoPlaintext)
    ELSE IF Truthy(vk)
    THEN (IF vkb.exc # "none" THEN Keyed(vkb.exc, NoPlaintext)
          ELSE IF Len(vkb.val.val) # 1 THEN Keyed("AssertionError", NoPlaintext)
          ELSE IF Len(skb.val.val) = 2 /\ vkb.val.val # <<skb.val.val[2]>>
          THEN Keyed("AssertionError", NoPlaintext)
          ELSE KeypairPlaintext_assigned(KeypairPlaintext_into_keypair(skb.val.val, vkb.val.val)))
    ELSE KeypairPlaintext_assigned(
             KeypairPlaintext_into_keypair(skb.val.val,
                                           IF Len(skb.val.val) = 2 THEN <<skb.val.val[2]>> ELSE <<>>))

\* KeypairPlaintext.__init__; seed is what author() draws when it is called
KeypairPlaintext_init(sk, vk, seed) ==
    KeypairPlaintext_decoded(
        sk_bytes(IF ~Truthy(sk) /\ ~Truthy(vk) THEN KeypairObject(seed) ELSE sk), vk, into_bytes(vk))

\* the JSON dict of a keypair file: sk, vk, salt and ciphertext are texts
\* (form "none": the key is absent), extra an unknown key
KeyDict(sk, vk, salt, ciphertext, extra) ==
    [sk |-> sk, vk |-> vk, salt |-> salt, ciphertext |-> ciphertext, extra |-> extra]

\* Serializable.serialize of a KeypairPlaintext and of a KeypairEncrypted
KeypairPlaintext_serialize(self) ==
    KeyDict(into_b64(Bytes(self.sk)), into_b64(Bytes(self.vk)), NoText, NoText, FALSE)

KeypairEncrypted_serialize(self) ==
    KeyDict(NoText, NoText, into_hex(Bytes(self.salt)), into_hex(Bytes(self.ciphertext)), FALSE)

\* ------------------------------------------------------- load_keys, load
\* A keypair file is [form, dict]: form "junk" is not JSON, "json" holds the
\* dict.
KeyFile(form, dict) == [form |-> form, dict |-> dict]

JunkKeyFile == KeyFile("junk", KeyDict(NoText, NoText, NoText, NoText, FALSE))

\* what load_keys( every=True, detail=True ) did with the file at path: the
\* probes it made, their result (a Keypair or an exception), and whether the
\* result was yielded
Probed(path, probes, result, yielded) ==
    [path |-> path, probes |-> probes, result |-> result, yielded |-> yielded]

KeyError(exc) == [kind |-> "error", exc |-> exc]

\* lines 1656-1657
probe_encrypted_made(made, username, password) ==
    IF made.exc # "none" THEN Keyed(made.exc, NoKey)
    ELSE KeypairEncrypted_into_keypair(made.val, username, password)

probe_encrypted(d, username, password) ==
    IF d.extra THEN Keyed("TypeError", NoKey)
    ELSE probe_encrypted_made(
             KeypairEncrypted_init(d.sk, d.vk, d.salt, d.ciphertext, NoText, NoText, 1, 1),
             username, password)

\* lines 1684-1685
probe_plaintext_made(made) ==
    IF made.exc # "none" THEN Keyed(made.exc, NoKey)
    ELSE KeypairPlaintext_into_keypair(made.val.sk, made.val.vk)

probe_plaintext(d, drawn) ==
    IF d.extra \/ d.salt.form # "none" \/ d.ciphertext.form # "none"
    THEN Keyed("TypeError", NoKey)
    ELSE probe_plaintext_made(KeypairPlaintext_init(d.sk, d.vk, drawn))

\* as load_keys_file, but any failure of the encrypted probe ends the file
load_keys_file_encrypted_only(path, file, e, p) ==
    IF file.form = "junk" THEN Probed(path, <<>>, KeyError("ValueError"), FALSE)
    ELSE IF e.exc = "none" THEN Probed(path, <<"encrypted">>, e.val, TRUE)
    ELSE Probed(path, <<"encrypted">>, KeyError(e.exc), TRUE)

\* lines 1642-1704 for one file, e and p the results of the two probes: a
\* file that is not JSON yields nothing; the keypair of the encrypted probe
\* or its KeypairCredentialError is yielded; after any other failure of it
\* the keypair of the plaintext probe or its exception is yielded
load_keys_file(path, file, e, p) ==
    IF file.form = "junk" THEN Probed(path, <<>>, KeyError("ValueError"), FALSE)
    ELSE IF e.exc = "none" THEN Probed(path, <<"encrypted">>, e.val, TRUE)
    ELSE IF e.exc = "KeypairCredentialError"
    THEN Probed(path, <<"encrypted">>, KeyError(e.exc), TRUE)
    ELSE IF p.exc = "none" THEN Probed(path, <<"encrypted", "plaintext">>, p.val, TRUE)
    ELSE Probed(path, <<"encrypted", "plaintext">>, KeyError(p.exc), TRUE)

\* load_keys( username, password, every=True, detail=True ), from the i-th
\* file on; drawn is the seed author() draws if it is called
RECURSIVE load_keys(_, _, _, _, _)
load_keys(files, i, username, password, drawn) ==
    IF i > Len(files) THEN <<>>
    ELSE <<load_keys_file(i, files[i], probe_encrypted(files[i].dict, username, password),
                          probe_plaintext(files[i].dict, drawn))>>
         \o load_keys(files, i + 1, username, password, drawn)

\* A license file is [form, license, signature]: form "junk" is not JSON,
\* "json" the dict of a LicenseSigned.
LicenseFile(form, license, signature) == [form |-> form, license |-> license, signature |-> signature]

RECURSIVE load(_, _, _, _)

load_rest(prov, rest) == Made(rest.exc, <<prov.val>> \o rest.val, prov.trace \o rest.trace)

load_made(files, i, confirm, machine_id_path, prov) ==
    IF prov.exc # "none" THEN Made(prov.exc, <<>>, prov.trace)
    ELSE load_rest(prov, load(files, i + 1, confirm, machine_id_path))

\* load, from the i-th file on: the LicenseSigned of each file; the exception
\* of a file that does not parse or does not construct is raised
load(files, i, confirm, machine_id_path) ==
    IF i > Len(files) THEN Made("none", <<>>, <<>>)
    ELSE IF files[i].form = "junk" THEN Made("ValueError", <<>>, <<>>)
    ELSE load_made(files, i, confirm, machine_id_path,
                   LicenseSigned_init(files[i].license, TRUE, NoKey, files[i].signature,
                                      confirm, machine_id_path))

\* --------------------------------------------------------------- check
\* what check found for a keypair: prov is the LicenseSigned (none: <<>>),
\* by is how it was found, at the index of the license file it came from
Found(prov, by, at, reasons) == [prov |-> prov, by |-> by, at |-> at, reasons |-> reasons]

Reasoned(reasons, rest) == [rest EXCEPT !.reasons = reasons \o @]

\* check, lines 1837-1853: the License of the requirements, issued by the keypair
requirement_made(prov) == Made(prov.exc, <<prov.val>>, prov.trace)

sublicense_issue(keypair, confirm, machine_id_path, L) ==
    IF L.exc # "none" THEN Made(L.exc, <<>>, L.trace)
    ELSE LicenseSigned_init(L.val, FALSE, SigKey(keypair.sk), NoText, confirm, machine_id_path)

sublicense(keypair, lic, requirements, confirm, machine_id_path) ==
    sublicense_issue(keypair, confirm, machine_id_path,
        License_attributes(requirements, confirm, machine_id_path,
            Agent_init(IF lic.license.client # <<>> THEN lic.license.client[1]
                       ELSE Agent(keypair.vk, PyNone)),
            Made("none", <<>>, <<>>),
            Present(requirement_made(
                LicenseSigned_init(requirements.dependencies[1][1].license, FALSE, NoKey,
                                   into_b64(Bytes(requirements.dependencies[1][1].signature)),
                                   confirm, machine_id_path)))))

RECURSIVE check_licenses(_, _, _, _, _, _)

\* as attempt_issue, but a failure to issue is not caught
attempt_issue_unchecked(keypair, licenses, j, confirm, machine_id_path, constraints, a, prov) ==
    Found(<<prov.val>>, "issued", j, <<a.exc>>)

\* lines 1837-1862: the sub-License issued, or the reason it was not
attempt_issue(keypair, licenses, j, confirm, machine_id_path, constraints, a, prov) ==
    IF prov.exc # "none"
    THEN Reasoned(<<a.exc, prov.exc>>,
                  check_licenses(keypair, licenses, j + 1, confirm, machine_id_path, constraints))
    ELSE Found(<<prov.val>>, "issued", j, <<a.exc>>)

\* lines 1815-1826: the requirements of a sub-License, or the reason there are none
attempt_requirements(keypair, licenses, j, confirm, machine_id_path, constraints, a, b) ==
    IF b.exc # "none"
    THEN Reasoned(<<a.exc, b.exc>>,
                  check_licenses(keypair, licenses, j + 1, confirm, machine_id_path, constraints))
    ELSE attempt_issue(keypair, licenses, j, confirm, machine_id_path, constraints, a,
                       sublicense(keypair, licenses[j], b.constraints, confirm, machine_id_path))

\* as attempt_verify, but a license that verifies is still tried as a parent
attempt_verify_then_issue(keypair, licenses, j, confirm, machine_id_path, constraints, a) ==
    attempt_requirements(keypair, licenses, j, confirm, machine_id_path, constraints, a,
                         LicenseSigned_verify(licenses[j], NoKey, NoText, confirm,
                                              machine_id_path, TRUE, constraints))

\* lines 1792-1810: the license was issued by the keypair, or the reason it was not
attempt_verify(keypair, licenses, j, confirm, machine_id_path, constraints, a) ==
    IF a.exc = "none" THEN Found(<<licenses[j]>>, "verified", j, <<>>)
    ELSE attempt_requirements(keypair, licenses, j, confirm, machine_id_path, constraints, a,
                              LicenseSigned_verify(licenses[j], NoKey, NoText, confirm,
                                                   machine_id_path, TRUE, constraints))

\* as check_licenses, but no license is tried as one the keypair issued
check_licenses_issuing(keypair, licenses, j, confirm, machine_id_path, constraints) ==
    IF j > Len(licenses) THEN Found(<<>>, "none", 0, <<>>)
    ELSE attempt_requirements(keypair, licenses, j, confirm, machine_id_path, constraints,
                              LicenseSigned_verify(licenses[j], PubKey(keypair.vk), NoText, confirm,
                                                   machine_id_path, FALSE, constraints),
                              LicenseSigned_verify(licenses[j], NoKey, NoText, confirm,
                                                   machine_id_path, TRUE, constraints))

\* the loop over the licenses for one keypair, from the j-th on
check_licenses(keypair, licenses, j, confirm, machine_id_path, constraints) ==
    IF j > Len(licenses) THEN Found(<<>>, "none", 0, <<>>)
    ELSE attempt_verify(keypair, licenses, j, confirm, machine_id_path, constraints,
                        LicenseSigned_verify(licenses[j], PubKey(keypair.vk), NoText, confirm,
                                             machine_id_path, FALSE, constraints))

\* what check yields: the keypair and the LicenseSigned or None
Yielded(keypair, found) ==
    [keypair |-> keypair, prov |-> found.prov, by |-> found.by, at |-> found.at,
     reasons |-> found.reasons]

\* the loop over keypairs: those not yet seen, from the k-th on
RECURSIVE check_keypairs(_, _, _, _, _, _, _)
check_keypairs(keypairs, k, key_seen, licenses, confirm, machine_id_path, constraints) ==
    IF k > Len(keypairs) THEN <<>>
    ELSE IF keypairs[k] \in key_seen
    THEN check_keypairs(keypairs, k + 1, key_seen, licenses, confirm, machine_id_path, constraints)
    ELSE <<Yielded(keypairs[k],
                   check_licenses(keypairs[k], licenses, 1, confirm, machine_id_path, constraints))>>
         \o check_keypairs(keypairs, k + 1, key_seen \cup {keypairs[k]}, licenses,
                           confirm, machine_id_path, constraints)

\* lines 1752-1764: the keypairs of the files that hold one, in their order
Keypairs(loaded) ==
    LET at == {i \in 1..Len(loaded) : loaded[i].result.kind = "keypair"}
        nth(n) == CHOOSE i \in at : Cardinality({h \in at : h < i}) = n - 1
    IN  [n \in 1..Cardinality(at) |-> loaded[nth(n)].result]

check_loaded(keypairs, licenses, confirm, machine_id_path, constraints) ==
    IF licenses.exc # "none" THEN [exc |-> licenses.exc, yielded |-> <<>>]
    ELSE [exc |-> "none",
          yielded |-> check_keypairs(keypairs, 1, {}, licenses.val, confirm, machine_id_path,
                                     constraints)]

\* check( username, password, confirm, machine_id_path, constraints )
\* consumed to its end, over the keypair files and the license files found:
\* what it yielded, and the exception that ended it
check(keys, files, username, password, confirm, machine_id_path, constraints, drawn) ==
    check_loaded(Keypairs(load_keys(keys, 1, username, password, drawn)),
                 load(files, 1, confirm, machine_id_path),
                 confirm, machine_id_path, constraints)

\* ------------------------------------------------------------- authorize
\* what authorize yielded in all, the exception that ended it, the keypair it
\* created (none: <<>>), and the keypair files it left
Authorized(exc, yielded, keypair, files) ==
    [exc |-> exc, yielded |-> yielded, keypair |-> keypair, files |-> files]

\* lines 1914-1921 and 1938: the serialized keypair written, encrypted when
\* username and password are supplied
authorize_file(seed, username, password, urandom) ==
    IF Truthy(username) /\ Truthy(password)
    THEN KeyFile("json", KeypairEncrypted_serialize(
                             KeypairEncrypted_init(Bytes(crypto_sign_keypair(seed).sk), NoText,
                                                   NoText, NoText, username, password, seed,
                                                   urandom).val))
    ELSE KeyFile("json", KeypairPlaintext_serialize(
                             KeypairPlaintext_init(Bytes(crypto_sign_keypair(seed).sk), NoText,
                                                   seed).val))

\* lines 1922-1950: the keypair files after the write, which succeeds in the
\* first writable location if there is one
authorize_written(keys, file, writable) == IF writable THEN Append(keys, file) ELSE keys

\* state CREATE, lines 1954-1965: what the second check yields
authorize_retested(second, seed, keys) ==
    Authorized(second.exc, second.yielded, <<crypto_sign_keypair(seed)>>, keys)

\* state TEST, lines 1954-1965: what the first check yields, if anything
authorize_tested(first, keys, files, username, password, confirm, machine_id_path, drawn, seed, written) ==
    IF first.exc # "none" THEN Authorized(first.exc, first.yielded, <<>>, keys)
    ELSE IF first.yielded # <<>> THEN Authorized("none", first.yielded, <<>>, keys)
    ELSE authorize_retested(check(written, files, username, password, confirm, machine_id_path,
                                  NoConstraints, drawn),
                            seed, written)

\* authorize( username, password, confirm, machine_id_path ) consumed to its
\* end; seed and urandom are what author() and os.urandom draw, drawn what
\* author() draws within load_keys, writable whether a location can be written
authorize(keys, files, username, password, confirm, machine_id_path, drawn, seed, urandom, writable) ==
    authorize_tested(check(keys, files, username, password, confirm, machine_id_path,
                           NoConstraints, drawn),
                     keys, files, username, password, confirm, machine_id_path, drawn, seed,
                     authorize_written(keys, authorize_file(seed, username, password, urandom),
                                       writable))

\* ------------------------------------------------- the states of authorize
\* State( state.value + 1 ), lines 1904-1909: the state after START is TEST,
\* after TEST is CREATE, and there is none after CREATE
State_after(state) ==
    CASE state = "START" -> "TEST"
      [] state = "TEST" -> "CREATE"
      [] OTHER -> "ValueError"

\* the frame of a running authorize: its state and the states it has been
\* in, the number of runs of check begun, the keypairs created, the locations
\* the keypair was written to, what was yielded, and the exception raised
Frame(state) ==
    [state |-> state, states |-> <<state>>, checks |-> 0, keypairs |-> <<>>, written |-> <<>>,
     yielded |-> <<>>, exc |-> "none"]

\* line 1908: "while state is not State.CREATE", in a frame no exception ended
authorize_continues(frame) == frame.exc = "none" /\ frame.state # "CREATE"

\* line 1909: the state assigned at the head of the loop
authorize_entered(frame, state) == [frame EXCEPT !.state = state, !.states = Append(@, state)]

RECURSIVE written_from_all(_, _)
\* as written_from, but the loop goes on after a write that succeeded
written_from_all(locations, i) ==
    IF i > Len(locations) THEN <<>>
    ELSE IF locations[i] THEN <<i>> \o written_from_all(locations, i + 1)
    ELSE written_from_all(locations, i + 1)

RECURSIVE written_from(_, _)
\* lines 1922-1950: the locations written from the i-th on, each writable or
\* not; the loop is left at the first write that succeeds
written_from(locations, i) ==
    IF i > Len(locations) THEN <<>>
    ELSE IF locations[i] THEN <<i>>
    ELSE written_from(locations, i + 1)

\* lines 1911-1950: the keypair created in state CREATE, and where it was written
authorize_created(frame, seed, written) ==
    [frame EXCEPT !.keypairs = Append(@, crypto_sign_keypair(seed)), !.written = @ \o written]

\* lines 1954-1965: check run to its end, its pairs yielded, and the state
\* CREATE assigned after each of them
authorize_checked(frame, result) ==
    [frame EXCEPT !.checks = @ + 1,
                  !.yielded = @ \o result.yielded,
                  !.exc = result.exc,
                  !.state = IF result.yielded # <<>> THEN "CREATE" ELSE @,
                  !.states = IF result.yielded # <<>> /\ frame.state # "CREATE"
                             THEN Append(@, "CREATE") ELSE @]

\* ------------------------------------------------------- value coercions
\* A value handed to a coercion is [form, val]: form "none" is None, "typed"
\* the value of the type itself, "str" its serialized string, "dict" its
\* mapping, "junk" a string that is no serialization of the type, "number" a
\* number of seconds, "datetime" a datetime.datetime, "v1" a uuid.UUID that
\* is not of version 4, "v1str" the string of one.
Form(form, val) == [form |-> form, val |-> val]

NoValue == Form("none", <<>>)

\* the result of a coercion: the exception raised, and the value (<<>>: None)
Coerced(exc, val) == [exc |-> exc, val |-> val]

\* parse_datetime( ts ) of a string; Timestamp( ts ) of a datetime
into_timestamp(ts) ==
    CASE ts.form = "none" -> Coerced("none", <<>>)
      [] ts.form \in {"str", "datetime", "typed"} -> Coerced("none", <<ts.val>>)
      [] ts.form = "junk" -> Coerced("ValueError", <<>>)
      [] OTHER -> Coerced("AssertionError", <<>>)

\* a Duration is passed through; parse_seconds( dur ) of a string or a number
into_duration(dur) ==
    CASE dur.form = "none" -> Coerced("none", <<>>)
      [] dur.form \in {"str", "number", "typed"} -> Coerced("none", <<dur.val>>)
      [] OTHER -> Coerced("ValueError", <<>>)

\* the value of an optional: None is PyNone
Opt(v) == IF v = <<>> THEN PyNone ELSE v[1]

\* Timespan.__init__( start, length ) with start and length coerced
Timespan_made(start, length) ==
    IF start.exc # "none" THEN Coerced(start.exc, <<>>)
    ELSE IF length.exc # "none" THEN Coerced(length.exc, <<>>)
    ELSE Coerced("none", <<Timespan(Opt(start.val), Opt(length.val))>>)

\* into_Timespan: a Timespan is passed through; a string goes through
\* json.dumps, and dict( ... ) of the string that yields raises ValueError; of
\* a mapping, Timespan( **dict( tspan ))
into_Timespan(tspan) ==
    CASE tspan.form = "none" -> Coerced("none", <<>>)
      [] tspan.form = "typed" -> Coerced("none", <<tspan.val>>)
      [] tspan.form = "dict" ->
            Timespan_made(into_timestamp(tspan.val.start), into_duration(tspan.val.length))
      [] tspan.form \in {"str", "junk"} -> Coerced("ValueError", <<>>)
      [] OTHER -> Coerced("TypeError", <<>>)

\* A Grant holds its options: a set of [name, dict], where dict 0 is a value
\* that is no dict.  Grant.__init__( **kwds )
Grant(options) ==
    IF \E o \in options : o.dict = 0 THEN Coerced("AssertionError", <<>>)
    ELSE Coerced("none", <<options>>)

\* Grant.empty
Grant_empty(grant) == grant = {}

\* into_Grant: a Grant is passed through; json.loads of a string; of a
\* mapping, Grant( **dict( grant ))
into_Grant(grant) ==
    CASE grant.form = "none" -> Coerced("none", <<>>)
      [] grant.form = "typed" -> Coerced("none", <<grant.val>>)
      [] grant.form \in {"str", "dict"} -> Grant(grant.val)
      [] grant.form = "junk" -> Coerced("ValueError", <<>>)
      [] OTHER -> Coerced("TypeError", <<>>)

\* into_UUIDv4: uuid.UUID( machine ) of what is no UUID, and the assertion of
\* its version
into_UUIDv4(machine) ==
    CASE machine.form = "none" -> Coerced("none", <<>>)
      [] machine.form \in {"typed", "str"} -> Coerced("none", <<machine.val>>)
      [] machine.form \in {"v1", "v1str"} -> Coerced("AssertionError", <<>>)
      [] machine.form = "junk" -> Coerced("ValueError", <<>>)
      [] OTHER -> Coerced("AttributeError", <<>>)

\* ----------------------------------------- Licenses of values to be coerced
\* the License and its grant (<<>>: None)
Granted(made, grant) ==
    [exc |-> made.exc, val |-> made.val, grant |-> grant, trace |-> made.trace]

\* License.__init__, lines 883-913, with machine, timespan and grant coerced
\* as m, t and g: F holds the author, the client and the dependencies
License_coerced(F, dicts, confirm, machine_id_path, m, t, g) ==
    IF Agent_init(F.author).exc # "none"
    THEN Granted(Made(Agent_init(F.author).exc, <<>>, <<>>), <<>>)
    ELSE IF F.client # <<>> /\ Agent_init(F.client[1]).exc # "none"
    THEN Granted(Made(Agent_init(F.client[1]).exc, <<>>, <<>>), <<>>)
    ELSE IF m.exc # "none" THEN Granted(Made(m.exc, <<>>, <<>>), <<>>)
    ELSE IF t.exc # "none" \/ g.exc # "none"
    THEN Granted(Made("LicenseIncompatibility", <<>>, <<>>), <<>>)
    ELSE Granted(License_init(License(F.author, F.client, F.dependencies, Opt(m.val), t.val),
                              dicts, confirm, machine_id_path),
                 g.val)

\* License( author, client, dependencies, machine, timespan, grant ): F holds
\* machine and timespan as given
License_of(F, grant, dicts, confirm, machine_id_path) ==
    License_coerced(F, dicts, confirm, machine_id_path,
                    into_UUIDv4(F.machine), into_Timespan(F.timespan), into_Grant(grant))

\* as isnt_empty, without the call of empty()
isnt_None(grant) == grant # <<>>

\* Serializable.keys of a License, the grant: it is yielded unless it is None
\* or its empty() is true
isnt_empty(grant) == grant # <<>> /\ ~Grant_empty(grant[1])

\* Serializable.serialize of a License with a grant: the JSON of the other
\* keys, and the member "grant" if its key is yielded
License_serialize(L, grant) ==
    [license |-> serialize(L), grant |-> IF isnt_empty(grant) THEN grant ELSE <<>>]

\* Serializable.sign( sigkey ) of a License with a grant
License_sign(L, grant, sk) ==
    [serialized |-> License_serialize(L, grant),
     signature |-> crypto_sign(License_serialize(L, grant), sk)]

\* ------------------------------------------------- the DKIM record parsed
\* A TXT record is [v, k, p, trailing]: the values of its tags v= and k=
\* ("absent": the record has no such tag), the text of its tag p= (None: the
\* record has none), and whether a ';' ends it.  The outcome is the
\* exception raised and the bytes of the key returned (<<>>: none).
Queried(exc, key) == [exc |-> exc, key |-> key]

\* line 681: the key of p= decoded
dkim_decoded(p_binary) ==
    IF p_binary.exc # "none" THEN Queried(p_binary.exc, <<>>)
    ELSE Queried("none", p_binary.val.val)

\* lines 667-681 for the one record: the assertions on v and k are made only
\* of a tag that is there; the empty pair after a closing ';' cannot be
\* split at '='
dkim_parsed(record) ==
    IF record.v \notin {"absent", "DKIM1"} THEN Queried("AssertionError", <<>>)
    ELSE IF record.k \notin {"absent", "ed25519"} THEN Queried("AssertionError", <<>>)
    ELSE IF record.trailing THEN Queried("ValueError", <<>>)
    ELSE IF ~Truthy(record.p) THEN Queried("AssertionError", <<>>)
    ELSE dkim_decoded(into_bytes(record.p))

\* Agent.pubkey_query, lines 662-682, of the TXT records that the resolver
\* answers with
Agent_pubkey_query(records) ==
    IF Len(records) # 1 THEN Queried("AssertionError", <<>>)
    ELSE dkim_parsed(records[1])

\* ------------------------------------------------- sequences of bounded length
RECURSIVE SeqsUpTo(_, _)
SeqsUpTo(S, n) ==
    IF n = 0 THEN {<<>>}
    ELSE LET shorter == SeqsUpTo(S, n - 1)
         IN  shorter \cup {Append(s, x) : s \in {t \in shorter : Len(t) = n - 1}, x \in S}

\* ---------------------------------------------------------------- actions
NoArgs == [none |-> TRUE]

InitOverlap ==
    /\ pc = "idle"
    /\ op = "none"
    /\ args = NoArgs
    /\ res = NoArgs
    /\ dns = [d \in Domains |-> PyNone]
    /\ machine_id = 1
    /\ keyfiles = <<>>
    /\ licfiles = <<>>
    /\ created = {}

\* overlap_intersect( start, length, other )
Intersect ==
    /\ pc = "idle"
    /\ \E a \in Timespans, b \in Timespans :
         /\ args' = [a |-> a, b |-> b]
         /\ res' = overlap_intersect(a.start, a.length, b)
    /\ op' = "overlap_intersect"
    /\ pc' = "done"
    /\ UNCHANGED <<dns, machine_id, keyfiles, licfiles, created>>

\* License.overlap( *others ) of a License with the timespan self
Overlap ==
    /\ pc = "idle"
    /\ \E self \in {<<>>} \cup {<<t>> : t \in Timespans}, others \in SeqsUpTo(Timespans, MaxOthers) :
         /\ args' = [self |-> self, others |-> others]
         /\ res' = License_overlap([timespan |-> self], others)
    /\ op' = "overlap"
    /\ pc' = "done"
    /\ UNCHANGED <<dns, machine_id, keyfiles, licfiles, created>>

\* the caller takes the result; the next call may be made
Return ==
    /\ pc = "done"
    /\ pc' = "idle"
    /\ op' = "none"
    /\ args' = NoArgs
    /\ res' = NoArgs
    /\ UNCHANGED <<dns, machine_id, keyfiles, licfiles, created>>

NextOverlap == Intersect \/ Overlap \/ Return

SpecOverlap == InitOverlap /\ [][NextOverlap]_vars

\* ------------------------------------------------ License operations
\* License( **F, confirm=..., machine_id_path=... )
NewLicense(Inputs) ==
    /\ pc = "idle"
    /\ \E a \in Inputs :
         /\ args' = a
         /\ res' = License_init(a.F, a.dicts, a.confirm, a.machine_id_path)
    /\ op' = "License"
    /\ pc' = "done"
    /\ UNCHANGED <<dns, machine_id, keyfiles, licfiles, created>>

\* L.verify( author_pubkey, signature, confirm, machine_id_path, dependencies, **constraints )
Verify(Inputs) ==
    /\ pc = "idle"
    /\ \E a \in Inputs :
         /\ args' = a
         /\ res' = License_verify(a.L, a.author_pubkey, a.signature, a.confirm,
                                  a.machine_id_path, a.dependencies, a.constraints)
    /\ op' = "verify"
    /\ pc' = "done"
    /\ UNCHANGED <<dns, machine_id, keyfiles, licfiles, created>>

\* LicenseSigned( license, author_sigkey, signature, confirm, machine_id_path )
NewLicenseSigned(Inputs) ==
    /\ pc = "idle"
    /\ \E a \in Inputs :
         /\ args' = a
         /\ res' = LicenseSigned_init(a.license, a.dict, a.author_sigkey, a.signature,
                                      a.confirm, a.machine_id_path)
    /\ op' = "LicenseSigned"
    /\ pc' = "done"
    /\ UNCHANGED <<dns, machine_id, keyfiles, licfiles, created>>

\* ------------------------------------------------------------ inputs
SeedOf(vk) == vk - 10

\* the LicenseSigned its author issues for the License L
Issued(L) ==
    LicenseSigned(L, crypto_sign(serialize(L), <<SeedOf(L.author.pubkey), L.author.pubkey>>))

OptTimespans == {<<>>} \cup {<<t>> : t \in Timespans}

VerifyArgs(L, author_pubkey, signature, confirm, machine_id_path, dependencies, constraints) ==
    [L |-> L, author_pubkey |-> author_pubkey, signature |-> signature, confirm |-> confirm,
     machine_id_path |-> machine_id_path, dependencies |-> dependencies, constraints |-> constraints]

LicenseArgs(F, dicts, confirm, machine_id_path) ==
    [F |-> F, dicts |-> dicts, confirm |-> confirm, machine_id_path |-> machine_id_path]

\* Licenses of one author that differ in their timespans: the dependencies
\* are signed Licenses without dependencies, each with any timespan
TimeAuthor == Agent(VkOf(1), 1)

TimeDependencies == {Issued(License(TimeAuthor, <<>>, <<>>, PyNone, t)) : t \in OptTimespans}

\* with no dependencies, or with up to n of them
TimeLicenseInputs(n) ==
    {LicenseArgs(License(TimeAuthor, <<>>, d, PyNone, t), FALSE, PyFalse, PyFalse) :
        t \in OptTimespans,
        d \in {<<>>} \cup {<<ds>> : ds \in SeqsUpTo(TimeDependencies, n)}}

\* License( author, dependencies = ..., timespan = ... ) of the one author
NewTimeLicense ==
    /\ pc = "idle"
    /\ \E a \in TimeLicenseInputs(MaxDeps) :
         /\ args' = a
         /\ res' = License_init(a.F, a.dicts, a.confirm, a.machine_id_path)
    /\ op' = "License"
    /\ pc' = "done"
    /\ UNCHANGED <<dns, machine_id, keyfiles, licfiles, created>>

\* the Licenses with at most one dependency that were constructed, verified
\* under a timespan constraint
TimeVerifyInputs ==
    {VerifyArgs(a.F, NoKey, NoText, PyFalse, PyFalse, FALSE, [NoConstraints EXCEPT !.timespan = c]) :
        a \in {b \in TimeLicenseInputs(1) :
                 /\ b.F.dependencies # <<>>
                 /\ License_init(b.F, FALSE, PyFalse, PyFalse).exc = "none"},
        c \in OptTimespans}

InitTimespan == InitOverlap

NextTimespan == NewTimeLicense \/ Verify(TimeVerifyInputs) \/ Return

SpecTimespan == InitTimespan /\ [][NextTimespan]_vars

\* Licenses that differ in their authors, clients and dependencies: the chain
\* of custody and the DKIM confirmation.  Every LicenseSigned used as a
\* dependency is one that was constructed (without confirmation).
Vks == {VkOf(s) : s \in Seeds}

\* each author publishes its key in one domain
DomainOf(seed) == ((seed - 1) % NumDomains) + 1

Authors == {Agent(VkOf(s), DomainOf(s)) : s \in Seeds}

Clients == {<<>>} \cup {<<Agent(vk, PyNone)>> : vk \in Vks}

Confirms == {PyNone, PyTrue, PyFalse}

Constructed(ls) ==
    LicenseSigned_init(ls.license, FALSE, NoKey, into_b64(Bytes(ls.signature)), PyFalse, PyFalse).exc = "none"

ChainLeaves == {Issued(License(a, c, <<>>, PyNone, <<>>)) : a \in Authors, c \in Clients}

ChainMids ==
    {ls \in {Issued(License(a, c, << <<d>> >>, PyNone, <<>>)) :
                a \in Authors, c \in Clients, d \in {l \in ChainLeaves : l.license.client = <<>>}} :
        Constructed(ls)}

ChainDependencies ==
    {<<>>, << <<>> >>}
    \cup {<< <<d>> >> : d \in ChainLeaves \cup ChainMids}
    \cup {<< <<d, e>> >> : d, e \in {l \in ChainLeaves : l.license.author.domain = 1}}

ChainLicenseInputs ==
    {LicenseArgs(License(a, <<>>, d, PyNone, <<>>), FALSE, c, PyFalse) :
        a \in Authors, d \in ChainDependencies, c \in Confirms}

ChainVerifyInputs ==
    {VerifyArgs(a.F, NoKey, NoText, c, PyFalse, FALSE, NoConstraints) :
        a \in {b \in ChainLicenseInputs :
                 b.confirm = PyFalse /\ License_init(b.F, FALSE, PyFalse, PyFalse).exc = "none"},
        c \in Confirms}

InitChain ==
    /\ pc = "idle"
    /\ op = "none"
    /\ args = NoArgs
    /\ res = NoArgs
    /\ dns \in [Domains -> Vks \cup {PyNone}]
    /\ machine_id = 1
    /\ keyfiles = <<>>
    /\ licfiles = <<>>
    /\ created = {}

NextChain == NewLicense(ChainLicenseInputs) \/ Verify(ChainVerifyInputs) \/ Return

SpecChain == InitChain /\ [][NextChain]_vars

\* LicenseSigned( license, author_sigkey, signature ): Licenses without
\* dependencies, signed with a key or loaded with a signature.  The signing
\* keys are the keypairs, and the 64 bytes of a seed followed by the public
\* half of another; the signatures are those of any key over any of the
\* Licenses, as bytes and as base-64 text, the empty ones, text of characters
\* outside the base-64 alphabet, and text that does not decode.
SignedLicenses ==
    {License(a, <<>>, <<>>, PyNone, t) : a \in Authors, t \in {<<>>, <<Timespan(0, 1)>>}}

SignedSigkeys ==
    {NoKey}
    \cup {crypto_sign_keypair(s) : s \in Seeds}
    \cup {SigKey(<<s, VkOf(t)>>) : s, t \in Seeds}

SignedSignatures ==
    {NoText, Bytes(<<>>), BlankText, JunkText}
    \cup {Bytes(crypto_sign(serialize(L), <<s, VkOf(s)>>)) : L \in SignedLicenses, s \in Seeds}
    \cup {into_b64(Bytes(crypto_sign(serialize(L), <<s, VkOf(s)>>))) : L \in SignedLicenses, s \in Seeds}

SignedArgs(license, dict, author_sigkey, signature, confirm, machine_id_path) ==
    [license |-> license, dict |-> dict, author_sigkey |-> author_sigkey, signature |-> signature,
     confirm |-> confirm, machine_id_path |-> machine_id_path]

SignedInputs ==
    {SignedArgs(L, d, k, s, c, PyFalse) :
        L \in SignedLicenses, d \in BOOLEAN, k \in SignedSigkeys, s \in SignedSignatures,
        c \in {PyNone, PyFalse}}

NextSigned == NewLicenseSigned(SignedInputs) \/ Return

SpecSigned == InitChain /\ [][NextSigned]_vars

\* License.verify of a License of one author under every kind of argument:
\* an author key that is or is not the author's, DKIM records of any key, a
\* signature of the author or of another key, a dependency of another author
\* (and domain) bound to a machine or to none, a timespan constraint that does
\* or does not overlap, and a machine in the License and in the constraints.
\* The Licenses are constructed where no machine is checked and no key confirmed.
VerifyAuthor == Agent(VkOf(1), 1)

VerifyDependencyAuthor == Agent(VkOf(NumKeys), NumDomains)

\* the keys of the two authors
VerifyVks == {VerifyAuthor.pubkey, VerifyDependencyAuthor.pubkey}

OptMachines == {PyNone} \cup Machines

VerifyDependencies ==
    {<<>>} \cup {<< <<Issued(License(VerifyDependencyAuthor, <<>>, <<>>, m, <<>>))>> >> : m \in OptMachines}

VerifyLicenses ==
    {License(VerifyAuthor, <<>>, d, m, t) :
        d \in VerifyDependencies, m \in OptMachines, t \in {<<>>, <<Timespan(0, 1)>>}}

VerifyLicenseInputs ==
    {LicenseArgs(L, FALSE, PyFalse, p) : L \in VerifyLicenses, p \in {PyNone, PyFalse}}

VerifySignatures(L) ==
    {NoText} \cup {Bytes(crypto_sign(serialize(L), <<SeedOf(vk), vk>>)) : vk \in VerifyVks}

VerifyConstraints ==
    {[NoConstraints EXCEPT !.timespan = t, !.machine = m] :
        t \in {<<>>, <<Timespan(MaxTime, 1)>>}, m \in OptMachines \cup {PyTrue}}

VerifyKeys == {NoKey} \cup {PubKey(vk) : vk \in VerifyVks}

VerifyInputs ==
    UNION {{VerifyArgs(L, k, s, c, p, FALSE, q) :
                k \in VerifyKeys, s \in VerifySignatures(L), c \in Confirms,
                p \in {PyNone, PyFalse}, q \in VerifyConstraints} : L \in VerifyLicenses}

InitVerify ==
    /\ pc = "idle"
    /\ op = "none"
    /\ args = NoArgs
    /\ res = NoArgs
    /\ dns \in [Domains -> VerifyVks \cup {PyNone}]
    /\ machine_id \in Machines
    /\ keyfiles = <<>>
    /\ licfiles = <<>>
    /\ created = {}

NextVerify == NewLicense(VerifyLicenseInputs) \/ Verify(VerifyInputs) \/ Return

SpecVerify == InitVerify /\ [][NextVerify]_vars

\* the JSON dict of a LicenseSigned, as a license file holds it: the
\* dependencies are dicts, the signatures base-64 text
RECURSIVE into_JSON(_)
into_JSON(ls) ==
    LicenseFile("json",
                License(ls.license.author, ls.license.client,
                        IF ls.license.dependencies = <<>> THEN <<>>
                        ELSE <<[i \in 1..Len(ls.license.dependencies[1]) |->
                                  into_JSON(ls.license.dependencies[1][i])]>>,
                        ls.license.machine, ls.license.timespan),
                into_b64(Bytes(ls.signature)))

\* check( confirm, machine_id_path, constraints ), iterated to its end, over
\* the keypair files and license files found on the configuration path
Check(Inputs) ==
    /\ pc = "idle"
    /\ \E a \in Inputs :
         /\ args' = [a EXCEPT !.keyfiles = keyfiles, !.licfiles = licfiles]
         /\ res' = check(keyfiles, licfiles, a.username, a.password, a.confirm,
                         a.machine_id_path, a.constraints, a.drawn)
    /\ op' = "check"
    /\ pc' = "done"
    /\ UNCHANGED <<dns, machine_id, keyfiles, licfiles, created>>

\* the configuration path holds up to MaxFiles files of each kind.  The
\* keypairs are those of the seeds, in plaintext or encrypted (and then opened
\* or not by the credentials); the license files hold Licenses of the first
\* author for any client or for none, a sub-License that the last keypair
\* issued of one of them, a license with the signature of another key, and
\* text that is not JSON.
MaxFiles == 2

\* the credentials check is called with, and others
CheckUsername == Str(<<"a">>)

CheckPassword == Str(<<"a">>)

OtherPassword == Str(<<"A">>)

\* the file authorize writes for a keypair of the seed
PlaintextFile(seed) ==
    KeyFile("json", KeypairPlaintext_serialize(
                        KeypairPlaintext_init(KeypairObject(seed), NoText, seed).val))

EncryptedFile(seed, username, password, urandom) ==
    KeyFile("json", KeypairEncrypted_serialize(
                        KeypairEncrypted_init(KeypairObject(seed), NoText, NoText, NoText,
                                              username, password, seed, urandom).val))

CheckKeyFiles ==
    {JunkKeyFile, EncryptedFile(1, CheckUsername, CheckPassword, 1),
     EncryptedFile(1, CheckUsername, OtherPassword, 1)}
    \cup {PlaintextFile(s) : s \in Seeds}

CheckVendor == Agent(VkOf(1), 1)

CheckParents == {Issued(License(CheckVendor, c, <<>>, PyNone, <<>>)) : c \in Clients}

CheckIssued ==
    {Issued(License(Agent(VkOf(NumKeys), PyNone), <<>>, << <<p>> >>, PyNone, <<>>)) :
        p \in {q \in CheckParents : q.license.client = <<>>}}

CheckLicenseFiles ==
    {into_JSON(ls) : ls \in CheckParents \cup CheckIssued}
    \cup {LicenseFile("json", License(CheckVendor, <<>>, <<>>, PyNone, <<>>),
                      into_b64(Bytes(crypto_sign(serialize(License(CheckVendor, <<>>, <<>>, PyNone, <<>>)),
                                                 <<NumKeys, VkOf(NumKeys)>>)))),
           LicenseFile("junk", <<>>, NoText)}

\* no file of CheckKeyFiles makes author() draw a seed
CheckArgs(confirm, machine_id_path, constraints) ==
    [keyfiles |-> <<>>, licfiles |-> <<>>, username |-> CheckUsername, password |-> CheckPassword,
     confirm |-> confirm, machine_id_path |-> machine_id_path, constraints |-> constraints,
     drawn |-> 1]

CheckInputs ==
    {CheckArgs(c, m[1], m[2]) :
        c \in {PyNone, PyFalse},
        m \in {<<PyFalse, NoConstraints>>, <<PyNone, NoConstraints>>,
               <<PyNone, [NoConstraints EXCEPT !.machine = PyTrue]>>}}

InitCheck ==
    /\ pc = "idle"
    /\ op = "none"
    /\ args = NoArgs
    /\ res = NoArgs
    /\ dns \in [Domains -> Vks \cup {PyNone}]
    /\ machine_id \in {1}
    /\ keyfiles \in SeqsUpTo(CheckKeyFiles, MaxFiles)
    /\ licfiles \in SeqsUpTo(CheckLicenseFiles, MaxFiles)
    /\ created = {}

NextCheck == Check(CheckInputs) \/ Return

SpecCheck == InitCheck /\ [][NextCheck]_vars

\* load_keys( username, password, every=True, detail=True ), iterated to
\* its end over the keypair files found
LoadKeys(Inputs) ==
    /\ pc = "idle"
    /\ \E a \in Inputs :
         /\ args' = [a EXCEPT !.files = keyfiles]
         /\ res' = [exc |-> "none",
                    loaded |-> load_keys(keyfiles, 1, a.username, a.password, a.drawn)]
    /\ op' = "load_keys"
    /\ pc' = "done"
    /\ UNCHANGED <<dns, machine_id, keyfiles, licfiles, created>>

\* usernames and passwords: None, or a str of up to MaxText characters
MaxText == 2

Chars == {"a", "A"}

Texts == {NoText} \cup {Str(t) : t \in SeqsUpTo(Chars, MaxText)}

\* keypair files: text that is not JSON; the files of plaintext keypairs;
\* files of the first keypair encrypted under two passwords; an encrypted
\* keypair with a ciphertext cut short; a dict of both schemas; a plaintext
\* dict with the public key of another seed; a dict with an unknown key; the
\* empty dict
LoadKeyFiles ==
    {JunkKeyFile,
     EncryptedFile(1, CheckUsername, CheckPassword, 1),
     EncryptedFile(1, CheckUsername, OtherPassword, 2),
     KeyFile("json", KeyDict(NoText, NoText, Hex(<<1>>), Hex(<<1>>), FALSE)),
     KeyFile("json", [PlaintextFile(1).dict EXCEPT
                         !.salt = EncryptedFile(1, CheckUsername, CheckPassword, 1).dict.salt,
                         !.ciphertext = EncryptedFile(1, CheckUsername, CheckPassword, 1).dict.ciphertext]),
     KeyFile("json", [PlaintextFile(1).dict EXCEPT !.vk = into_b64(Bytes(<<VkOf(NumKeys)>>))]),
     KeyFile("json", [PlaintextFile(1).dict EXCEPT !.extra = TRUE]),
     KeyFile("json", KeyDict(NoText, NoText, NoText, NoText, FALSE))}
    \cup {PlaintextFile(s) : s \in Seeds}

LoadKeysArgs(username, password, drawn) ==
    [files |-> <<>>, username |-> username, password |-> password, drawn |-> drawn]

LoadKeysInputs ==
    {LoadKeysArgs(u, p, s) : u \in Texts, p \in Texts, s \in Seeds}

InitKeys ==
    /\ pc = "idle"
    /\ op = "none"
    /\ args = NoArgs
    /\ res = NoArgs
    /\ dns = [d \in Domains |-> PyNone]
    /\ machine_id \in {1}
    /\ keyfiles \in SeqsUpTo(LoadKeyFiles, MaxFiles)
    /\ licfiles = <<>>
    /\ created = {}

NextKeys == LoadKeys(LoadKeysInputs) \/ Return

SpecKeys == InitKeys /\ [][NextKeys]_vars

\* up to MaxFound keypair files and license files are found at first, and up
\* to MaxCreated keypairs are created
MaxFound == 1

MaxCreated == 1

\* a keypair that an invocation of authorize created and persisted
Creation(a, keypair, path) ==
    [username |-> a.username, password |-> a.password, confirm |-> a.confirm,
     machine_id_path |-> a.machine_id_path, keypair |-> keypair, path |-> path]

\* the state authorize leaves: its result, the keypair file written if any,
\* and the record of the keypair persisted; at most MaxCreated are persisted
Authorizes(a, r) ==
    /\ r.keypair = <<>> \/ Cardinality(created) < MaxCreated
    /\ args' = [a EXCEPT !.keyfiles = keyfiles, !.licfiles = licfiles, !.created = created]
    /\ res' = r
    /\ keyfiles' = r.files
    /\ created' = IF r.keypair # <<>> /\ r.files # keyfiles
                  THEN created \cup {Creation(a, r.keypair[1], Len(r.files))}
                  ELSE created

\* authorize( domain, product, username, password, confirm, machine_id_path ),
\* iterated to its end
Authorize(Inputs) ==
    /\ pc = "idle"
    /\ \E a \in Inputs, seed \in Seeds, urandom \in Salts, writable \in BOOLEAN :
         Authorizes(a, authorize(keyfiles, licfiles, a.username, a.password, a.confirm,
                                 a.machine_id_path, a.drawn, seed, urandom, writable))
    /\ op' = "authorize"
    /\ pc' = "done"
    /\ UNCHANGED <<dns, machine_id, licfiles>>

AuthorizeArgs(username, password, confirm, machine_id_path) ==
    [keyfiles |-> <<>>, licfiles |-> <<>>, created |-> {}, username |-> username,
     password |-> password, confirm |-> confirm, machine_id_path |-> machine_id_path,
     drawn |-> 1]

AuthorizeInputs ==
    {AuthorizeArgs(u, p, c, PyFalse) :
        u \in {NoText, CheckUsername}, p \in {NoText, CheckPassword, OtherPassword},
        c \in {PyNone, PyFalse}}

AuthorizeKeyFiles ==
    {JunkKeyFile, PlaintextFile(1), EncryptedFile(1, CheckUsername, CheckPassword, 1)}

AuthorizeLicenseFiles ==
    {LicenseFile("junk", <<>>, NoText),
     into_JSON(Issued(License(CheckVendor, <<>>, <<>>, PyNone, <<>>)))}

InitAuthorize ==
    /\ pc = "idle"
    /\ op = "none"
    /\ args = NoArgs
    /\ res = NoArgs
    /\ dns \in {[d \in Domains |-> PyNone],
                [d \in Domains |-> IF d = CheckVendor.domain THEN CheckVendor.pubkey ELSE PyNone]}
    /\ machine_id \in {1}
    /\ keyfiles \in SeqsUpTo(AuthorizeKeyFiles, MaxFound)
    /\ licfiles \in SeqsUpTo(AuthorizeLicenseFiles, MaxFound)
    /\ created = {}

NextAuthorize == Authorize(AuthorizeInputs) \/ Return

SpecAuthorize == InitAuthorize /\ [][NextAuthorize]_vars

\* ------------------------------------------------- authorize, step by step
\* the locations config_open_deduced offers for the keypair, each writable
\* or not
MaxLocations == 2

Locations == SeqsUpTo(BOOLEAN, MaxLocations)

\* authorize( ... ) called: the generator is at its head, in state START
AuthorizeCall(Inputs) ==
    /\ pc = "idle"
    /\ Len(keyfiles) < MaxFound + MaxCreated
    /\ \E a \in Inputs, seed \in Seeds, urandom \in Salts, locations \in Locations :
         args' = [keyfiles |-> keyfiles, licfiles |-> licfiles, username |-> a.username,
                  password |-> a.password, confirm |-> a.confirm,
                  machine_id_path |-> a.machine_id_path, drawn |-> a.drawn, seed |-> seed,
                  urandom |-> urandom, locations |-> locations]
    /\ res' = Frame("START")
    /\ op' = "authorize_states"
    /\ pc' = "running"
    /\ UNCHANGED <<dns, machine_id, keyfiles, licfiles, created>>

\* the check of one turn of the loop, over the keypair files as they are now
Tested(frame, keys) ==
    /\ res' = authorize_checked(frame, check(keys, licfiles, args.username, args.password,
                                             args.confirm, args.machine_id_path, NoConstraints,
                                             args.drawn))
    /\ keyfiles' = keys

\* the turn in state CREATE: the keypair created and written, then the check
Created(frame, written) ==
    Tested(authorize_created(frame, args.seed, written),
           authorize_written(keyfiles,
                             authorize_file(args.seed, args.username, args.password, args.urandom),
                             written # <<>>))

\* one turn of the loop of authorize, lines 1908-1965
AuthorizeLoop ==
    /\ pc = "running"
    /\ authorize_continues(res)
    /\ IF State_after(res.state) = "CREATE"
       THEN Created(authorize_entered(res, State_after(res.state)), written_from(args.locations, 1))
       ELSE Tested(authorize_entered(res, State_after(res.state)), keyfiles)
    /\ UNCHANGED <<pc, op, args, dns, machine_id, licfiles, created>>

\* the loop is left, or an exception of check ends the generator
AuthorizeEnd ==
    /\ pc = "running"
    /\ ~authorize_continues(res)
    /\ pc' = "done"
    /\ UNCHANGED <<op, args, res, dns, machine_id, keyfiles, licfiles, created>>

NextStates == AuthorizeCall(AuthorizeInputs) \/ AuthorizeLoop \/ AuthorizeEnd \/ Return

SpecStates == InitAuthorize /\ [][NextStates]_vars

\* ------------------------------------------------- keypairs constructed
InitKeypair ==
    /\ pc = "idle"
    /\ op = "none"
    /\ args = NoArgs
    /\ res = NoArgs
    /\ dns = [d \in Domains |-> PyNone]
    /\ machine_id = 1
    /\ keyfiles = <<>>
    /\ licfiles = <<>>
    /\ created = {}

\* KeypairEncrypted( sk=sk, username=username, password=password ) of the
\* signing key of a seed, given as its 32 or its 64 bytes
NewKeypairEncrypted ==
    /\ pc = "idle"
    /\ \E seed \in Seeds, username \in Texts, password \in Texts, urandom \in Salts :
       \E sk \in {<<seed>>, crypto_sign_keypair(seed).sk} :
         /\ args' = [sk |-> Bytes(sk), username |-> username, password |-> password]
         /\ res' = KeypairEncrypted_init(Bytes(sk), NoText, NoText, NoText, username, password,
                                         seed, urandom)
    /\ op' = "KeypairEncrypted"
    /\ pc' = "done"
    /\ UNCHANGED <<dns, machine_id, keyfiles, licfiles, created>>

\* self.into_keypair( username, password ) of the KeypairEncrypted just made
IntoKeypair ==
    /\ pc = "done"
    /\ op = "KeypairEncrypted"
    /\ res.exc = "none"
    /\ \E username \in Texts, password \in Texts :
         /\ args' = [self |-> res.val, made |-> args, username |-> username,
                     password |-> password]
         /\ res' = KeypairEncrypted_into_keypair(res.val, username, password)
    /\ op' = "into_keypair"
    /\ pc' = "done"
    /\ UNCHANGED <<dns, machine_id, keyfiles, licfiles, created>>

NextEncrypted == NewKeypairEncrypted \/ IntoKeypair \/ Return

SpecEncrypted == InitKeypair /\ [][NextEncrypted]_vars

\* key material given as sk: nothing, text that does not decode, a Keypair,
\* and as bytes or base-64 text the 32 bytes of a seed, 64 bytes whose upper
\* half is or is not the public key of the lower, and 96 bytes
SkInputs ==
    {NoText, JunkText}
        \cup {KeypairObject(s) : s \in Seeds}
        \cup {Bytes(<<s>>) : s \in Seeds} \cup {into_b64(Bytes(<<s>>)) : s \in Seeds}
        \cup {Bytes(<<s, VkOf(t)>>) : s \in Seeds, t \in Seeds}
        \cup {into_b64(Bytes(<<s, VkOf(t)>>)) : s \in Seeds, t \in Seeds}
        \cup {Bytes(<<1, VkOf(1), VkOf(1)>>)}

\* key material given as vk: nothing, text that does not decode, the 32 bytes
\* of a public key as bytes or base-64 text, and 64 bytes
VkInputs ==
    {NoText, JunkText}
        \cup {Bytes(<<VkOf(s)>>) : s \in Seeds} \cup {into_b64(Bytes(<<VkOf(s)>>)) : s \in Seeds}
        \cup {Bytes(<<VkOf(1), VkOf(1)>>)}

\* KeypairPlaintext( sk=sk, vk=vk )
NewKeypairPlaintext ==
    /\ pc = "idle"
    /\ \E sk \in SkInputs, vk \in VkInputs, seed \in Seeds :
         /\ args' = [sk |-> sk, vk |-> vk, seed |-> seed]
         /\ res' = KeypairPlaintext_init(sk, vk, seed)
    /\ op' = "KeypairPlaintext"
    /\ pc' = "done"
    /\ UNCHANGED <<dns, machine_id, keyfiles, licfiles, created>>

NextPlaintext == NewKeypairPlaintext \/ Return

SpecPlaintext == InitKeypair /\ [][NextPlaintext]_vars

\* --------------------------------------------- Licenses serialized, signed
\* License( author, dependencies, machine, timespan, grant )
NewLicenseOf(Inputs) ==
    /\ pc = "idle"
    /\ \E a \in Inputs :
         /\ args' = a
         /\ res' = License_of(a.F, a.grant, a.dicts, a.confirm, a.machine_id_path)
    /\ op' = "License"
    /\ pc' = "done"
    /\ UNCHANGED <<dns, machine_id, keyfiles, licfiles, created>>

\* L.sign( sigkey ) of the License just made, with the key of its author
Sign ==
    /\ pc = "done"
    /\ op = "License"
    /\ res.exc = "none"
    /\ args' = [L |-> res.val, grant |-> res.grant, made |-> args]
    /\ res' = License_sign(res.val, res.grant,
                           <<SeedOf(res.val.author.pubkey), res.val.author.pubkey>>)
    /\ op' = "sign"
    /\ pc' = "done"
    /\ UNCHANGED <<dns, machine_id, keyfiles, licfiles, created>>

\* timespans as given: none, the empty mapping, a Timespan of nothing, and a
\* timespan as mapping, as Timespan and as its serialized string
SerializeTimespans ==
    {NoValue,
     Form("dict", [start |-> NoValue, length |-> NoValue]),
     Form("typed", Timespan(PyNone, PyNone)),
     Form("dict", [start |-> Form("str", 0), length |-> Form("str", 1)]),
     Form("typed", Timespan(0, 1)),
     Form("str", Timespan(0, 1))}

\* grants as given: none, no options as mapping, as Grant and as string, one
\* option, an option that is no dict, and a string that is no JSON
SerializeGrants ==
    {NoValue, Form("dict", {}), Form("typed", {}), Form("str", {}),
     Form("dict", {[name |-> "some", dict |-> 1]}),
     Form("str", {[name |-> "some", dict |-> 1]}),
     Form("dict", {[name |-> "some", dict |-> 0]}),
     Form("junk", {})}

\* dependencies: none, the empty list, and one License of the author
SerializeDependencies ==
    {<<>>, << <<>> >>, << <<Issued(License(TimeAuthor, <<>>, <<>>, PyNone, <<>>))>> >>}

SerializeMachines == {NoValue, Form("str", 1), Form("v1", 1)}

SerializeInputs ==
    {[F |-> License(TimeAuthor, <<>>, d, m, t), grant |-> g, dicts |-> FALSE,
      confirm |-> PyFalse, machine_id_path |-> PyFalse] :
        d \in SerializeDependencies, m \in SerializeMachines, t \in SerializeTimespans,
        g \in SerializeGrants}

NextSerialize == NewLicenseOf(SerializeInputs) \/ Sign \/ Return

SpecSerialize == InitKeypair /\ [][NextSerialize]_vars

\* ------------------------------------------------------- values coerced
\* the coercion named is applied to the value v with the result r
Coerces(name, v, r) ==
    /\ args' = [value |-> v]
    /\ res' = r
    /\ op' = name
    /\ pc' = "done"
    /\ UNCHANGED <<dns, machine_id, keyfiles, licfiles, created>>

\* the mapping of a Timespan, as read from JSON
DictOf(t) ==
    Form("dict", [start |-> IF t.start = PyNone THEN NoValue ELSE Form("str", t.start),
                  length |-> IF t.length = PyNone THEN NoValue ELSE Form("str", t.length)])

GrantOptions == {[name |-> n, dict |-> 1] : n \in {"some", "more"}}

IntoTimestamp ==
    /\ pc = "idle"
    /\ \E v \in {NoValue, Form("junk", 0)}
                \cup {Form(f, t) : f \in {"str", "typed", "datetime", "number"}, t \in Timestamps} :
         Coerces("into_timestamp", v, into_timestamp(v))

IntoDuration ==
    /\ pc = "idle"
    /\ \E v \in {NoValue, Form("junk", 0)}
                \cup {Form(f, l) : f \in {"str", "typed", "number"}, l \in Durations} :
         Coerces("into_duration", v, into_duration(v))

IntoTimespan ==
    /\ pc = "idle"
    /\ \E v \in {NoValue, Form("junk", 0), Form("number", 0)}
                \cup {Form(f, t) : f \in {"str", "typed"}, t \in Timespans}
                \cup {DictOf(t) : t \in Timespans} :
         Coerces("into_Timespan", v, into_Timespan(v))

IntoGrant ==
    /\ pc = "idle"
    /\ \E v \in {NoValue, Form("junk", 0), Form("dict", {[name |-> "some", dict |-> 0]})}
                \cup {Form(f, g) : f \in {"str", "typed", "dict"}, g \in SUBSET GrantOptions} :
         Coerces("into_Grant", v, into_Grant(v))

IntoUUIDv4 ==
    /\ pc = "idle"
    /\ \E v \in {NoValue, Form("junk", 0), Form("number", 0)}
                \cup {Form(f, m) : f \in {"str", "typed", "v1", "v1str"}, m \in Machines} :
         Coerces("into_UUIDv4", v, into_UUIDv4(v))

NextCoerce ==
    IntoTimestamp \/ IntoDuration \/ IntoTimespan \/ IntoGrant \/ IntoUUIDv4 \/ Return

SpecCoerce == InitKeypair /\ [][NextCoerce]_vars

\* ------------------------------------------------------- DKIM lookups
\* the resolver answers with up to MaxRecords TXT records
MaxRecords == 2

TxtRecords ==
    [v : {"absent", "DKIM1", "DKIM2"}, k : {"absent", "ed25519", "rsa"},
     p : {NoText, into_b64(Bytes(<<>>)), into_b64(Bytes(<<VkOf(1)>>)), JunkText},
     trailing : BOOLEAN]

\* agent.pubkey_query()
PubkeyQuery ==
    /\ pc = "idle"
    /\ \E records \in SeqsUpTo(TxtRecords, MaxRecords) :
         /\ args' = [records |-> records]
         /\ res' = Agent_pubkey_query(records)
    /\ op' = "pubkey_query"
    /\ pc' = "done"
    /\ UNCHANGED <<dns, machine_id, keyfiles, licfiles, created>>

NextDkim == PubkeyQuery \/ Return

SpecDkim == InitKeypair /\ [][NextDkim]_vars

\* ------------------------------------------------- timespans of the calendar
\* Timestamps and durations on a scale of months: a date is the number of
\* months from 2020-01-01Z to the first day of its month, a duration of n
\* years is 12 n months.
ScenarioYears == 2

Months(year, month) == (year - 2020) * 12 + (month - 1)

Years(n) == 12 * n

DatedTimespans ==
    {Timespan(s, l) :
        s \in {Months(y, m) : y \in 2020..(2020 + ScenarioYears), m \in {1, 6}} \cup {PyNone},
        l \in {Years(n) : n \in 1..ScenarioYears} \cup {PyNone}}

\* overlap_intersect( start, length, other ) of two dated timespans
IntersectDated ==
    /\ pc = "idle"
    /\ \E a \in DatedTimespans, b \in DatedTimespans :
         /\ args' = [a |-> a, b |-> b]
         /\ res' = overlap_intersect(a.start, a.length, b)
    /\ op' = "overlap_intersect"
    /\ pc' = "done"
    /\ UNCHANGED <<dns, machine_id, keyfiles, licfiles, created>>

NextDated == IntersectDated \/ Return

SpecDated == InitOverlap /\ [][NextDated]_vars

\* ------------------------------------------------- dependencies in order
\* Licenses of the first author with a timespan or none, constructed of up to
\* MaxDeps LicenseSigned of the last author: each for any client or none, for
\* a machine or none, and with a timespan or none.  The keys published are
\* none, or those of the authors.
OrderAuthor == Agent(VkOf(1), 1)

OrderTimespans == {<<>>, <<Timespan(0, 1)>>, <<Timespan(MaxTime, 1)>>}

OrderDependencies ==
    {Issued(License(Agent(VkOf(NumKeys), NumDomains), c, <<>>, m, t)) :
        c \in Clients, m \in {PyNone, NumMachines}, t \in OrderTimespans}

InitOrder ==
    /\ pc = "idle"
    /\ op = "none"
    /\ args = NoArgs
    /\ res = NoArgs
    /\ dns \in {[d \in Domains |-> PyNone],
                [d \in Domains |-> IF d = NumDomains THEN VkOf(NumKeys) ELSE VkOf(1)]}
    /\ machine_id = 1
    /\ keyfiles = <<>>
    /\ licfiles = <<>>
    /\ created = {}

\* License( author, dependencies = [ LicenseSigned, ... ], timespan = ... ):
\* the constructor ends in self.verify( confirm, machine_id_path )
NewOrderedLicense ==
    /\ pc = "idle"
    /\ \E ds \in SeqsUpTo(OrderDependencies, MaxDeps), t \in OrderTimespans \ {<<Timespan(MaxTime, 1)>>},
          c \in {PyNone, PyFalse}, p \in {PyNone, PyFalse} :
         /\ args' = LicenseArgs(License(OrderAuthor, <<>>, <<ds>>, PyNone, t), FALSE, c, p)
         /\ res' = License_init(License(OrderAuthor, <<>>, <<ds>>, PyNone, t), FALSE, c, p)
    /\ op' = "License"
    /\ pc' = "done"
    /\ UNCHANGED <<dns, machine_id, keyfiles, licfiles, created>>

NextOrder == NewOrderedLicense \/ Return

SpecOrder == InitOrder /\ [][NextOrder]_vars

\* ------------------------------------------------- timespan intersection laws
\* a Timespan the data model allows: no length without a start
WellFormed(t) == t.start # PyNone \/ t.length = PyNone

\* the end of a timespan: start + length, PyNone when it has no upper bound
EndOf(t) == IF t.start = PyNone \/ t.length = PyNone THEN PyNone ELSE t.start + t.length

\* the reference intersection of two well-formed timespans
RefBegun(a, b) ==
    IF a.start = PyNone THEN b.start
    ELSE IF b.start = PyNone THEN a.start
    ELSE Max(a.start, b.start)

RefEnded(a, b) ==
    IF EndOf(a) = PyNone THEN EndOf(b)
    ELSE IF EndOf(b) = PyNone THEN EndOf(a)
    ELSE Min(EndOf(a), EndOf(b))

\* the sequence s with its elements i and j exchanged
Swapped(s, i, j) == [k \in 1..Len(s) |-> IF k = i THEN s[j] ELSE IF k = j THEN s[i] ELSE s[k]]

\* C5: timespan intersection is commutative and associative: the (start,
\* length) of overlap_intersect does not depend on which operand is this and
\* which is other, and the result of License.overlap (its start and length,
\* and whether it raises) does not depend on the order of the others.
C5_IntersectionCommutes ==
    /\ op = "overlap_intersect" =>
         LET r == overlap_intersect(args.b.start, args.b.length, args.a)
         IN  /\ (res.exc = "none") = (r.exc = "none")
             /\ res.start = r.start
             /\ res.length = r.length
    /\ op = "overlap" =>
         \A i, j \in 1..Len(args.others) :
            LET r == License_overlap([timespan |-> args.self], Swapped(args.others, i, j))
            IN  /\ (res.exc = "none") = (r.exc = "none")
                /\ res.start = r.start
                /\ res.length = r.length

\* C6: overlap_intersect returns the reference intersection of two timespans:
\* with both starts defined the start is the later one (also when neither has
\* a length), the end is the earliest defined end, a side with no start is
\* replaced by the other side, and the timespan with neither start nor length
\* is a two-sided identity.
C6_ReferenceIntersection ==
    (op = "overlap_intersect" /\ WellFormed(args.a) /\ WellFormed(args.b)) =>
        /\ res.exc = "none"
        /\ res.start = RefBegun(args.a, args.b)
        /\ res.ended = RefEnded(args.a, args.b)
        /\ (args.a.start = PyNone => res.length = args.b.length)
        /\ (args.b.start = PyNone => res.length = args.a.length)
        /\ (args.a.start # PyNone /\ args.b.start # PyNone) =>
             res.length = IF res.ended = PyNone THEN PyNone
                          ELSE IF res.ended <= res.start THEN 0
                          ELSE res.ended - res.start

\* ------------------------------------------------- timespans of a License
SetMax(S) == CHOOSE x \in S : \A y \in S : y <= x

SetMin(S) == CHOOSE x \in S : \A y \in S : x <= y

SpanOf(opt) == IF opt = <<>> THEN Timespan(PyNone, PyNone) ELSE opt[1]

\* the License of the last License( ... ) or verify( ... ), and the timespans
\* its own timespan is intersected with
OpLicense == IF op = "License" THEN args.F ELSE args.L

OpOthers ==
    dependency_timespans(OpLicense) \o (IF op = "verify" THEN args.constraints.timespan ELSE <<>>)

OpSpans == <<SpanOf(OpLicense.timespan)>> \o OpOthers

\* the intersection of well-formed timespans is empty or of length zero
RefEmpty(spans) ==
    LET starts == {spans[i].start : i \in 1..Len(spans)} \ {PyNone}
        ends == {EndOf(spans[i]) : i \in 1..Len(spans)} \ {PyNone}
    IN  /\ \A i \in 1..Len(spans) : WellFormed(spans[i])
        /\ ends # {}
        /\ SetMin(ends) <= SetMax(starts)

\* the timespan s neither starts before nor ends after the timespan d
Within(s, d) ==
    /\ d.start # PyNone => (s.start # PyNone /\ s.start >= d.start)
    /\ EndOf(d) # PyNone => (EndOf(s) # PyNone /\ EndOf(s) <= EndOf(d))

\* C3: a License with dependencies is constructible only if its timespan lies
\* within the timespan of every dependency: it starts no earlier and ends no
\* later than any of them.
C3_TimespanWithinDependencies ==
    (op = "License" /\ res.exc = "none") =>
        \A i \in 1..Len(OpOthers) : Within(SpanOf(args.F.timespan), OpOthers[i])

\* C4: whenever the intersection of the timespan of a License with those of
\* its dependencies and the timespan constraint is empty or of length zero,
\* License.verify raises the timespan incompatibility, for any number of
\* dependencies and any mix of bounded and open-ended timespans.
C4_EmptyIntersectionRaises ==
    (op \in {"License", "verify"} /\ Len(OpOthers) > 0 /\ RefEmpty(OpSpans)) =>
        (res.exc = "LicenseIncompatibility" /\ res.step = 5)

\* ------------------------------------------------- chain of custody, DKIM
\* the dependencies of a License, as a sequence
DependenciesOf(L) == IF L.dependencies = <<>> THEN <<>> ELSE L.dependencies[1]

\* the dependency names a client whose public key is not that of the author of L
ClientMismatch(dep, L) ==
    /\ dep.license.client # <<>>
    /\ dep.license.client[1].pubkey # PyNone
    /\ dep.license.client[1].pubkey # L.author.pubkey

MismatchedDependencies(L) ==
    {i \in 1..Len(DependenciesOf(L)) : ClientMismatch(DependenciesOf(L)[i], L)}

\* C2: in every License that passes verification each dependency that names
\* a client with a public key names the author of the License; a License
\* with a dependency whose client is another key fails, at that dependency;
\* dependencies without a client are accepted for any author.
C2_ChainOfCustody ==
    op \in {"License", "verify"} =>
        /\ res.exc = "none" => MismatchedDependencies(OpLicense) = {}
        /\ (MismatchedDependencies(OpLicense) # {} /\ args.confirm = PyFalse) =>
              /\ res.exc = "LicenseIncompatibility"
              /\ res.step = 4
              /\ res.at = SetMin(MismatchedDependencies(OpLicense))
        /\ (args.confirm = PyFalse
            /\ \A i \in 1..Len(DependenciesOf(OpLicense)) :
                  DependenciesOf(OpLicense)[i].license.client = <<>>) =>
              res.exc = "none"

\* a License with a dependency that names its author as the client was constructed
C2_Witness ==
    /\ op = "License"
    /\ res.exc = "none"
    /\ \E i \in 1..Len(DependenciesOf(args.F)) :
          /\ DependenciesOf(args.F)[i].license.client # <<>>
          /\ DependenciesOf(args.F)[i].license.author.pubkey # args.F.author.pubkey

\* the License and the Licenses of its dependencies, transitively
RECURSIVE Closure(_)
Closure(L) ==
    {L} \cup UNION {Closure(DependenciesOf(L)[i].license) : i \in 1..Len(DependenciesOf(L))}

\* the key published in DKIM for the author of M is the key M states
Confirmed(M) == M.author.domain # PyNone /\ dns[M.author.domain] = M.author.pubkey

\* C8: with confirm true or unset a verification passes only if the DKIM key
\* of the author equals the stated key, for the License and transitively for
\* every dependency; with confirm false License.verify makes no DKIM lookup.
C8_ConfirmApplied ==
    /\ (op \in {"License", "verify"} /\ args.confirm \in {PyTrue, PyNone} /\ res.exc = "none") =>
          \A M \in Closure(OpLicense) : Confirmed(M)
    /\ (op = "verify" /\ args.confirm = PyFalse) =>
          \A i \in 1..Len(res.trace) : res.trace[i].ev # "dkim"

\* a License whose dependency has a dependency passed with confirmation unset
C8_Witness ==
    /\ op = "verify"
    /\ args.confirm = PyNone
    /\ res.exc = "none"
    /\ \E i \in 1..Len(DependenciesOf(args.L)) :
          /\ DependenciesOf(DependenciesOf(args.L)[i].license) # <<>>
          /\ DependenciesOf(args.L)[i].license.author # args.L.author

\* ------------------------------------------------- signature of a LicenseSigned
\* the bytes sig are a signature of the License L by its author
Authentic(sig, L) == crypto_sign_open(sig, serialize(L), L.author.pubkey)

\* the signature supplied to the constructor (None, b'' and '' are none
\* supplied) is one that does not verify
Forged(signature, L) ==
    /\ Truthy(signature)
    /\ \/ into_bytes(signature).exc # "none"
       \/ ~Authentic(into_bytes(signature).val.val, L)

\* the public key derived from the signing key is not that of the author of L
Foreign(author_sigkey, L) ==
    /\ author_sigkey.kind # "none"
    /\ \/ into_keys(author_sigkey).sk = <<>>
       \/ crypto_sign_keypair(into_keys(author_sigkey).sk[1]).vk # L.author.pubkey

\* C1: every LicenseSigned that is constructed carries a signature that
\* verifies over the serialization of its License under the public key of
\* its author; constructing one with a signature that does not verify, or
\* signing one with a signing key of another public key, raises.
C1_SignatureInvariant ==
    op = "LicenseSigned" =>
        /\ res.exc = "none" => Authentic(res.val.signature, res.val.license)
        /\ Forged(args.signature, args.license) => res.exc # "none"
        /\ (~Truthy(args.signature) /\ Foreign(args.author_sigkey, args.license)) =>
              res.exc # "none"

\* ------------------------------------------------- the steps of License.verify
\* the arguments of the last License( ... ) or verify( ... )
OpConstraints == IF op = "verify" THEN args.constraints ELSE NoConstraints

OpAuthorKey == IF op = "verify" THEN args.author_pubkey ELSE NoKey

OpSignature == IF op = "verify" THEN args.signature ELSE NoText

\* what each step rejects, stated of the arguments and the environment
\* 1: an author key is supplied and is not the key of the author
Fails1 == OpAuthorKey.kind # "none" /\ into_keys(OpAuthorKey).vk # OpLicense.author.pubkey

\* 2: the key is to be confirmed and is not the one published for the author
Fails2 == args.confirm # PyFalse /\ ~Confirmed(OpLicense)

\* 3: a signature is supplied and is not the author's over the License
Fails3 == Forged(OpSignature, OpLicense)

\* the License of a dependency: not confirmed, bound to another machine,
\* signed by another key, or naming another client
Unconfirmed(dep) == args.confirm # PyFalse /\ \E M \in Closure(dep.license) : ~Confirmed(M)

Elsewhere(dep) ==
    /\ args.machine_id_path # PyFalse
    /\ \E M \in Closure(dep.license) : M.machine \notin {PyNone, machine_id}

\* 4: a dependency does not verify, or names another client
Fails4 ==
    \E i \in 1..Len(DependenciesOf(OpLicense)) :
        \/ Unconfirmed(DependenciesOf(OpLicense)[i])
        \/ Elsewhere(DependenciesOf(OpLicense)[i])
        \/ ~Authentic(DependenciesOf(OpLicense)[i].signature, DependenciesOf(OpLicense)[i].license)
        \/ ClientMismatch(DependenciesOf(OpLicense)[i], OpLicense)

\* 5: the timespans do not overlap
Fails5 == RefEmpty(OpSpans)

\* 6: the License or the constraints name a machine that is not this one
Fails6 ==
    /\ args.machine_id_path # PyFalse
    /\ \/ OpLicense.machine \notin {PyNone, machine_id}
       \/ OpConstraints.machine \notin {PyNone, PyTrue, machine_id}

FirstFailing ==
    IF Fails1 THEN 1 ELSE IF Fails2 THEN 2 ELSE IF Fails3 THEN 3
    ELSE IF Fails4 THEN 4 ELSE IF Fails5 THEN 5 ELSE IF Fails6 THEN 6 ELSE 0

\* C9: License.verify checks the author key, the DKIM record, the signature,
\* the dependencies, the timespans and the machine in this order: it raises
\* at the first of these steps that fails, and nothing of a later step has
\* happened (no DKIM lookup, no read of the machine id).
C9_FixedOrder ==
    op \in {"License", "verify"} =>
        /\ res.step = FirstFailing
        /\ (res.exc = "none") = (FirstFailing = 0)
        /\ res.step # 0 => \A i \in 1..Len(res.trace) : res.trace[i].step <= res.step
        /\ res.step = 1 => res.trace = <<>>
        /\ res.step \in 1..5 =>
              \A i \in 1..Len(res.trace) :
                 res.trace[i].ev = "machine_id" => res.trace[i].step = 4

\* every step would fail, and the verification raised at the first
C9_Witness ==
    /\ op = "verify"
    /\ Fails1 /\ Fails2 /\ Fails3 /\ Fails4 /\ Fails5 /\ Fails6
    /\ res.step = 1
    /\ res.exc = "LicenseIncompatibility"

\* C7: License.verify fails when the License or the machine constraint names
\* a machine other than the local one; the machine step does not fail when
\* they are absent, the local machine, or (the constraint) True; with
\* machine_id_path False no machine id is read and no mismatch, of the
\* License, the constraint or a dependency, makes the verification fail.
C7_MachineBinding ==
    op \in {"License", "verify"} =>
        /\ Fails6 => res.exc # "none"
        /\ (Fails6 /\ ~(Fails1 \/ Fails2 \/ Fails3 \/ Fails4 \/ Fails5)) =>
              (res.exc = "LicenseIncompatibility" /\ res.step = 6)
        /\ ~Fails6 => res.step # 6
        /\ args.machine_id_path = PyFalse =>
              /\ \A i \in 1..Len(res.trace) : res.trace[i].ev # "machine_id"
              /\ (res.exc = "none") = ~(Fails1 \/ Fails2 \/ Fails3 \/ Fails4 \/ Fails5)

\* with machine_id_path False a License passed that names another machine,
\* under a constraint and with a dependency that name another machine
C7_Witness ==
    /\ op = "verify"
    /\ args.machine_id_path = PyFalse
    /\ args.L.machine \in Machines \ {machine_id}
    /\ args.constraints.machine \in Machines \ {machine_id}
    /\ \E i \in 1..Len(DependenciesOf(args.L)) :
          DependenciesOf(args.L)[i].license.machine \in Machines \ {machine_id}
    /\ res.exc = "none"

\* ------------------------------------------------- the resolver
\* the keypairs that the keypair files hold and the credentials open
KeypairsHeld ==
    {crypto_sign_keypair(s) :
        s \in {t \in Seeds :
                 \E h \in 1..Len(args.keyfiles) :
                    \/ args.keyfiles[h] = PlaintextFile(t)
                    \/ \E n \in Salts :
                          args.keyfiles[h] = EncryptedFile(t, args.username, args.password, n)}}

\* the candidate licenses: those of the license files that hold one
Candidates ==
    {LicenseSigned_init(args.licfiles[j].license, TRUE, NoKey, args.licfiles[j].signature,
                        args.confirm, args.machine_id_path).val :
        j \in {h \in 1..Len(args.licfiles) :
                 /\ args.licfiles[h].form = "json"
                 /\ LicenseSigned_init(args.licfiles[h].license, TRUE, NoKey,
                                       args.licfiles[h].signature, args.confirm,
                                       args.machine_id_path).exc = "none"}}

\* the candidate was not issued by the keypair
NotIssuedBy(keypair, lic) ==
    LicenseSigned_verify(lic, PubKey(keypair.vk), NoText, args.confirm, args.machine_id_path,
                         FALSE, args.constraints).exc # "none"

\* the keypair can issue no sub-License of the candidate
NotIssuableBy(keypair, lic) ==
    \/ LicenseSigned_verify(lic, NoKey, NoText, args.confirm, args.machine_id_path,
                            TRUE, args.constraints).exc # "none"
    \/ sublicense(keypair, lic,
                  LicenseSigned_verify(lic, NoKey, NoText, args.confirm, args.machine_id_path,
                                       TRUE, args.constraints).constraints,
                  args.confirm, args.machine_id_path).exc # "none"

\* C10: check yields exactly one pair for each distinct keypair loaded; the
\* LicenseSigned of the pair is None exactly when every candidate license
\* fails both attempts (also when there is no candidate); no exception of an
\* attempt on a license ends check.
C10_OnePairPerKeypair ==
    op = "check" =>
        /\ res.exc = "none"
        /\ {res.yielded[i].keypair : i \in 1..Len(res.yielded)} = KeypairsHeld
        /\ Len(res.yielded) = Cardinality(KeypairsHeld)
        /\ \A i \in 1..Len(res.yielded) :
              (res.yielded[i].prov = <<>>) =
                 (\A lic \in Candidates :
                     NotIssuedBy(res.yielded[i].keypair, lic)
                     /\ NotIssuableBy(res.yielded[i].keypair, lic))


\* the LicenseSigned that load made of the j-th license file
CandidateAt(j) ==
    LicenseSigned_init(args.licfiles[j].license, TRUE, NoKey, args.licfiles[j].signature,
                       args.confirm, args.machine_id_path).val

\* every candidate before the j-th fails both attempts for the keypair
FailedBefore(keypair, j) ==
    \A h \in 1..(j - 1) :
        NotIssuedBy(keypair, CandidateAt(h)) /\ NotIssuableBy(keypair, CandidateAt(h))

\* C11: when check comes to a candidate license that verifies with
\* author_pubkey = keypair.vk under the constraints, the pair of the keypair
\* holds that loaded LicenseSigned itself, found by verification and not
\* issued, and the reasons recorded are those of the earlier candidates only:
\* no later candidate was examined.
C11_VerifiedEmittedUnchanged ==
    (op = "check" /\ res.exc = "none") =>
        \A i \in 1..Len(res.yielded), j \in 1..Len(args.licfiles) :
            (/\ FailedBefore(res.yielded[i].keypair, j)
             /\ ~NotIssuedBy(res.yielded[i].keypair, CandidateAt(j)))
            => /\ res.yielded[i].prov = <<CandidateAt(j)>>
               /\ res.yielded[i].by = "verified"
               /\ res.yielded[i].at = j
               /\ Len(res.yielded[i].reasons) = 2 * (j - 1)

\* the first candidate verifies for a keypair, and a second one follows of
\* which the keypair could have issued a sub-License
C11_Witness ==
    /\ op = "check"
    /\ res.exc = "none"
    /\ Len(args.licfiles) = 2
    /\ \E i \in 1..Len(res.yielded) :
          /\ res.yielded[i].by = "verified"
          /\ res.yielded[i].at = 1
          /\ ~NotIssuableBy(res.yielded[i].keypair, CandidateAt(2))


\* the requirements check computes of a candidate for a sub-License
RequirementsOf(lic) ==
    LicenseSigned_verify(lic, NoKey, NoText, args.confirm, args.machine_id_path, TRUE,
                         args.constraints)

\* one keypair is held, and the one license file holds a parent LicenseSigned
\* that names no client, was not authored by the keypair, and verifies under
\* the constraints
ClientlessParent(keypair) ==
    /\ KeypairsHeld = {keypair}
    /\ Len(args.licfiles) = 1
    /\ CandidateAt(1).license.client = <<>>
    /\ CandidateAt(1).license.author.pubkey # keypair.vk
    /\ RequirementsOf(CandidateAt(1)).exc = "none"

\* the pair holds a LicenseSigned of the keypair over exactly the parent
IssuedOver(y, parent) ==
    /\ y.prov # <<>>
    /\ y.prov[1].license.author.pubkey = y.keypair.vk
    /\ Serializable_verify(y.prov[1].license, y.keypair.vk, Bytes(y.prov[1].signature)) = "none"
    /\ y.prov[1].license.dependencies = << <<parent>> >>

\* C12: given a parent LicenseSigned with no client and a local keypair
\* that did not author it, check yields exactly one pair, and its
\* LicenseSigned is authored by the keypair, carries a signature valid under
\* keypair.vk, and has exactly the parent as its dependencies.
C12_SubLicenseIssued ==
    (op = "check" /\ res.exc = "none") =>
        \A keypair \in KeypairsHeld :
            ClientlessParent(keypair) =>
                /\ Len(res.yielded) = 1
                /\ res.yielded[1].keypair = keypair
                /\ IssuedOver(res.yielded[1], CandidateAt(1))


\* the candidate names a client of another key than the keypair's
ClientOfAnother(keypair, lic) ==
    /\ lic.license.client # <<>>
    /\ lic.license.client[1].pubkey # keypair.vk

\* C13: check issues a sub-License of a parent only when the parent names no
\* client or a client of the keypair's own key: a parent whose client pubkey
\* differs from keypair.vk is never the one a sub-License of the pair was
\* issued of, no issued LicenseSigned depends on such a parent, and when
\* check comes to it and it was not issued by the keypair, two reasons are
\* recorded for it and the search goes on.
C13_ClientMismatchNotIssued ==
    (op = "check" /\ res.exc = "none") =>
        \A i \in 1..Len(res.yielded) :
            /\ res.yielded[i].by = "issued" =>
                  \A d \in 1..Len(res.yielded[i].prov[1].license.dependencies[1]) :
                     ~ClientOfAnother(res.yielded[i].keypair,
                                      res.yielded[i].prov[1].license.dependencies[1][d])
            /\ \A j \in 1..Len(args.licfiles) :
                  (/\ ClientOfAnother(res.yielded[i].keypair, CandidateAt(j))
                   /\ FailedBefore(res.yielded[i].keypair, j)
                   /\ NotIssuedBy(res.yielded[i].keypair, CandidateAt(j)))
                  => /\ res.yielded[i].at # j
                     /\ Len(res.yielded[i].reasons) >= 2 * j
                     /\ res.yielded[i].prov = <<>> => Len(res.yielded[i].reasons) = 2 * Len(args.licfiles)

\* the first candidate names a client of another key, and the keypair was
\* issued a sub-License of the second
C13_Witness ==
    /\ op = "check"
    /\ res.exc = "none"
    /\ Len(args.licfiles) = 2
    /\ \E i \in 1..Len(res.yielded) :
          /\ ClientOfAnother(res.yielded[i].keypair, CandidateAt(1))
          /\ NotIssuedBy(res.yielded[i].keypair, CandidateAt(1))
          /\ res.yielded[i].by = "issued"
          /\ res.yielded[i].at = 2


\* the j-th license file does not parse, or the LicenseSigned of its dict
\* fails its construction-time verification
BadLicenseFile(j) ==
    \/ args.licfiles[j].form # "json"
    \/ LicenseSigned_init(args.licfiles[j].license, TRUE, NoKey, args.licfiles[j].signature,
                          args.confirm, args.machine_id_path).exc # "none"

\* C14: a license file that fails to parse or to construct does not abort
\* check: check ends without an exception and has a pair for every keypair
\* held, whose LicenseSigned is None exactly when none of the remaining
\* candidates verifies or can be sub-licensed.
C14_BadFileDoesNotAbort ==
    (op = "check" /\ \E j \in 1..Len(args.licfiles) : BadLicenseFile(j)) =>
        /\ res.exc = "none"
        /\ \A keypair \in KeypairsHeld :
              \E i \in 1..Len(res.yielded) :
                 /\ res.yielded[i].keypair = keypair
                 /\ (res.yielded[i].prov = <<>>) =
                       (\A lic \in Candidates :
                           NotIssuedBy(keypair, lic) /\ NotIssuableBy(keypair, lic))


\* the dict of the file constructs as a KeypairEncrypted
EncryptedSchema(d) ==
    /\ ~d.extra
    /\ KeypairEncrypted_init(d.sk, d.vk, d.salt, d.ciphertext, NoText, NoText, 1, 1).exc = "none"

\* C15: load_keys tries every JSON keypair file as encrypted first; a
\* KeypairCredentialError is recorded and yielded without a plaintext probe
\* and without a keypair; the plaintext probe is made only of a file that
\* fails the encrypted schema; and every file found is gone through.
C15_EncryptedFirst ==
    op = "load_keys" =>
        /\ Len(res.loaded) = Len(args.files)
        /\ \A i \in 1..Len(res.loaded) :
              /\ res.loaded[i].path = i
              /\ args.files[i].form = "json" =>
                    /\ res.loaded[i].probes # <<>>
                    /\ res.loaded[i].probes[1] = "encrypted"
              /\ res.loaded[i].result = KeyError("KeypairCredentialError") =>
                    /\ res.loaded[i].probes = <<"encrypted">>
                    /\ res.loaded[i].yielded
              /\ (\E n \in 1..Len(res.loaded[i].probes) : res.loaded[i].probes[n] = "plaintext")
                    => ~EncryptedSchema(args.files[i].dict)


\* ------------------------------------------------------------- authorize
\* check as authorize runs it, over the keypair files keys
RunOver(keys) ==
    check(keys, args.licfiles, args.username, args.password, args.confirm,
          args.machine_id_path, NoConstraints, args.drawn)

\* the keypair files are those found and one more, which the credentials
\* open to the keypair
Persisted(keypair) ==
    /\ Len(res.files) = Len(args.keyfiles) + 1
    /\ SubSeq(res.files, 1, Len(args.keyfiles)) = args.keyfiles
    /\ load_keys(<<res.files[Len(res.files)]>>, 1, args.username, args.password, args.drawn)[1].result
          = keypair

\* C16: authorize creates a keypair (and persists it, where a location is
\* writable) if and only if its first run of check yields no pair; when the
\* first run yields pairs, authorize yields exactly those and writes nothing;
\* after creating a keypair it yields the pairs of a second run of check.
C16_CreatesIffNothingFound ==
    op = "authorize" =>
        /\ (res.keypair # <<>>) = (RunOver(args.keyfiles).yielded = <<>>)
        /\ RunOver(args.keyfiles).yielded # <<>> =>
              /\ res.yielded = RunOver(args.keyfiles).yielded
              /\ res.files = args.keyfiles
        /\ res.keypair # <<>> =>
              /\ res.files = args.keyfiles \/ Persisted(res.keypair[1])
              /\ res.yielded = RunOver(res.files).yielded


\* the keypair of the creation c is found again: it is yielded, and the file
\* it was written to still holds it
FoundAgain(c) ==
    /\ \E i \in 1..Len(res.yielded) : res.yielded[i].keypair = c.keypair
    /\ c.path \in 1..Len(res.files)
    /\ load_keys(<<res.files[c.path]>>, 1, args.username, args.password, args.drawn)[1].result
          = c.keypair

\* an earlier invocation created and persisted c under these credentials
CreatedBefore(c) ==
    /\ c \in args.created
    /\ c.username = args.username
    /\ c.password = args.password

\* C17: after an invocation created and persisted a keypair, every later
\* invocation of authorize with the same credentials over the same paths
\* finds that keypair in the file written, creates no keypair and writes no
\* file.
C17_CreatedOnceThenReread ==
    op = "authorize" =>
        \A c \in args.created :
            CreatedBefore(c) =>
                /\ res.keypair = <<>>
                /\ res.files = args.keyfiles
                /\ FoundAgain(c)


\* ------------------------------------------------------------- keypairs
\* the username given to into_keypair is the one the keypair was made with,
\* up to letter case
SameUsername ==
    /\ args.username.form = "str"
    /\ args.made.username.form = "str"
    /\ lower(args.username.val) = lower(args.made.username.val)

\* C18: a KeypairEncrypted made of a seed with (username, password) decrypts
\* through into_keypair to the keypair of that seed when given the same
\* password and a username equal up to letter case; given a password that
\* differs in any way, into_keypair fails with KeypairCredentialError.
C18_DecryptsUnderCredentials ==
    (op = "into_keypair" /\ SameUsername) =>
        IF args.password = args.made.password
        THEN res = Keyed("none", crypto_sign_keypair(args.made.sk.val[1]))
        ELSE res = Keyed("KeypairCredentialError", NoKey)


\* the bytes that key material decodes to (a Keypair: its sk)
KeyBytes(t) == IF t.form \in {"bytes", "b64", "keypair"} THEN t.val ELSE <<>>

\* C19: a KeypairPlaintext is made of consistent key material only: a 64-byte
\* sk whose upper half differs from the vk stated, or from the public key of
\* its lower half, is rejected, and so is a vk stated that is not the public
\* key of a 32-byte sk; once made, its sk is the seed followed by the public
\* key of the seed, and its vk that public key.
C19_PlaintextConsistent ==
    op = "KeypairPlaintext" =>
        /\ (Len(KeyBytes(args.sk)) = 2 /\ Truthy(args.vk)
                /\ KeyBytes(args.vk) # <<KeyBytes(args.sk)[2]>>) => res.exc # "none"
        /\ (Len(KeyBytes(args.sk)) = 2
                /\ KeyBytes(args.sk)[2] # VkOf(KeyBytes(args.sk)[1])) => res.exc # "none"
        /\ (Len(KeyBytes(args.sk)) = 1 /\ Truthy(args.vk)
                /\ KeyBytes(args.vk) # <<VkOf(KeyBytes(args.sk)[1])>>) => res.exc # "none"
        /\ res.exc = "none" =>
              \E seed \in IF Truthy(args.sk) THEN {KeyBytes(args.sk)[1]} ELSE {args.seed} :
                 res.val = KeypairPlaintext(<<seed, VkOf(seed)>>, <<VkOf(seed)>>)

\* a 64-byte sk with the public key of another seed as its upper half, and no
\* vk stated, was rejected
C19_Witness ==
    /\ op = "KeypairPlaintext"
    /\ Len(KeyBytes(args.sk)) = 2
    /\ KeyBytes(args.sk)[2] # VkOf(KeyBytes(args.sk)[1])
    /\ ~Truthy(args.vk)
    /\ res.exc = "AssertionError"


\* ------------------------------------------------------------- timespans
\* C20: constructing a License whose timespan has a length and no start is
\* rejected, with or without dependencies.
C20_LengthWithoutStartRejected ==
    (/\ op = "License"
     /\ args.F.timespan # <<>>
     /\ args.F.timespan[1].length # PyNone
     /\ args.F.timespan[1].start = PyNone) => res.exc # "none"


\* ------------------------------------------------------------- serialization
\* what signing yields for the License made of the values a
SigningOf(a) ==
    License_sign(License_of(a.F, a.grant, a.dicts, a.confirm, a.machine_id_path).val,
                 License_of(a.F, a.grant, a.dicts, a.confirm, a.machine_id_path).grant,
                 <<SeedOf(a.F.author.pubkey), a.F.author.pubkey>>)

\* the timespan given holds neither start nor length
EmptyTimespan(t) ==
    \/ t = Form("dict", [start |-> NoValue, length |-> NoValue])
    \/ t = Form("typed", Timespan(PyNone, PyNone))

\* C21: a License made with an empty timespan (no start, no length) has the
\* serialization and the signature of the same License made with no
\* timespan, and no key "timespan".
C21_EmptyTimespanAbsent ==
    (op = "sign" /\ EmptyTimespan(args.made.F.timespan)) =>
        /\ "timespan" \notin DOMAIN res.serialized.license
        /\ res = SigningOf([args.made EXCEPT !.F.timespan = NoValue])


\* the grant given holds no option
EmptyGrant(g) == g \in {Form("dict", {}), Form("typed", {}), Form("str", {})}

\* C22: a License made with an empty Grant has the serialization and the
\* signature of the same License made with no grant, and no member "grant".
C22_EmptyGrantAbsent ==
    (op = "sign" /\ EmptyGrant(args.made.grant)) =>
        /\ res.serialized.grant = <<>>
        /\ res = SigningOf([args.made EXCEPT !.grant = NoValue])

\* a License that holds a Grant without options was signed
C22_Witness ==
    /\ op = "sign"
    /\ args.made.grant = Form("dict", {})
    /\ args.grant = <<{}>>
    /\ res.serialized.grant = <<>>


Coercions == {"into_timestamp", "into_duration", "into_Timespan", "into_Grant", "into_UUIDv4"}

\* C23: each coercion maps None to None, returns a value of the type
\* unchanged, and makes of the serialized string of a value, and of its
\* mapping where the type has one, that value.
C23_CoercionsAgree ==
    op \in Coercions =>
        /\ args.value.form = "none" => res = Coerced("none", <<>>)
        /\ args.value.form \in {"typed", "str"} => res = Coerced("none", <<args.value.val>>)
        /\ op = "into_Timespan" =>
              \A t \in Timespans : args.value = DictOf(t) => res = Coerced("none", <<t>>)
        /\ op = "into_Grant" =>
              \A g \in SUBSET GrantOptions :
                  args.value = Form("dict", g) => res = Coerced("none", <<g>>)


\* ------------------------------------------------------------- DKIM
\* the one record answered holds v=DKIM1, k=ed25519 and a p= that is not empty
WellFormedAnswer ==
    /\ Len(args.records) = 1
    /\ args.records[1].v = "DKIM1"
    /\ args.records[1].k = "ed25519"
    /\ Truthy(args.records[1].p)

\* C24: pubkey_query returns a key only if the answer is one record with
\* v=DKIM1, k=ed25519 and a p= that is not empty, and then the key of p=;
\* any other answer makes it fail, and no key is returned.
C24_DkimRecordRequired ==
    op = "pubkey_query" =>
        /\ res.exc = "none" => (WellFormedAnswer /\ into_b64(Bytes(res.key)) = args.records[1].p)
        /\ res.exc # "none" => res.key = <<>>


\* ------------------------------------------------- constraints returned
\* the overlap that License.verify computes of the License verified, its
\* dependencies and the timespan constraint given
ComputedOverlap ==
    License_overlap(args.L, dependency_timespans(args.L) \o args.constraints.timespan)

\* C25: when License.verify returns, the timespan of the constraints returned
\* is the overlap computed of the timespans of the License, of its
\* dependencies and of the constraint given, if any of them limits the time;
\* also when no timespan constraint is given.
C25_TimespanNarrowed ==
    (op = "verify" /\ res.exc = "none"
        /\ (ComputedOverlap.start # PyNone \/ ComputedOverlap.length # PyNone)) =>
        res.constraints.timespan = <<Timespan(ComputedOverlap.start, ComputedOverlap.length)>>

\* ---- C26
\* the Licenses of the overlap scenario: A from 2020-01-01Z for 2y, B from
\* 2021-06-01Z for 2y
ScenarioA == Timespan(Months(2020, 1), Years(2))

ScenarioB == Timespan(Months(2021, 6), Years(2))

ScenarioIntersected == op = "overlap_intersect" /\ args = [a |-> ScenarioA, b |-> ScenarioB]

\* C26, as stated: intersecting License A (2020-01-01Z, 2y) with License B
\* (2021-06-01Z, 2y) yields start 2021-06-01Z and length 1 year 7 months.
C26_ScenarioAsStated ==
    ScenarioIntersected =>
        (res.exc = "none" /\ res.start = Months(2021, 6) /\ res.length = Years(1) + 7)

\* C26, amended: intersecting License A (2020-01-01Z, 2y) with License B
\* (2021-06-01Z, 2y) yields start 2021-06-01Z and length 7 months, the time
\* from B's start to A's end at 2022-01-01Z.
C26_ScenarioIntersection ==
    ScenarioIntersected =>
        /\ res.exc = "none"
        /\ res.start = Months(2021, 6)
        /\ res.length = 7
        /\ res.ended = Months(2022, 1)

C26_Witness == ScenarioIntersected /\ res.exc = "none" /\ res.start = ScenarioB.start

\* ---- C27
\* the j-th candidate verifies as authored by the keypair
IssuedAt(keypair, j) == ~NotIssuedBy(keypair, CandidateAt(j))

\* the candidates before the j-th leave the keypair nothing to issue: each
\* verifies as authored by it, or cannot be sub-licensed by it
NothingToIssueBefore(keypair, j) ==
    \A h \in 1..(j - 1) : IssuedAt(keypair, h) \/ NotIssuableBy(keypair, CandidateAt(h))

\* the license of the pair is one of the loaded candidates, not a new one
EmittedLoaded(y) ==
    /\ y.by = "verified"
    /\ \E j \in 1..Len(args.licfiles) : y.prov = <<CandidateAt(j)>>

\* C27, as stated: if any candidate license was already authored by the
\* keypair and verifies, the license emitted for that keypair is one of the
\* loaded candidates and never a newly issued sub-license, regardless of the
\* order in which the license files are discovered.
C27_MatchBeforeIssueAnyOrder ==
    (op = "check" /\ res.exc = "none") =>
        \A i \in 1..Len(res.yielded) :
            (\E j \in 1..Len(args.licfiles) : IssuedAt(res.yielded[i].keypair, j))
            => EmittedLoaded(res.yielded[i])

\* C27, amended: check resolves each keypair license by license in the order
\* the license files are discovered, match-existing before issue-new on each:
\* if a candidate license was already authored by the keypair and verifies,
\* and no candidate discovered before it can be sub-licensed by the keypair,
\* the license emitted for that keypair is one of the loaded candidates and
\* never a newly issued sub-license.
C27_MatchBeforeIssueInOrder ==
    (op = "check" /\ res.exc = "none") =>
        \A i \in 1..Len(res.yielded) :
            (\E j \in 1..Len(args.licfiles) :
                /\ IssuedAt(res.yielded[i].keypair, j)
                /\ NothingToIssueBefore(res.yielded[i].keypair, j))
            => EmittedLoaded(res.yielded[i])

\* the second candidate was authored by the keypair and is emitted, the
\* first is neither its own nor one it can sub-license; the emitted license
\* could itself have been sub-licensed
C27_Witness ==
    /\ op = "check"
    /\ res.exc = "none"
    /\ Len(args.licfiles) = 2
    /\ \E i \in 1..Len(res.yielded) :
          /\ ~IssuedAt(res.yielded[i].keypair, 1)
          /\ NotIssuableBy(res.yielded[i].keypair, CandidateAt(1))
          /\ IssuedAt(res.yielded[i].keypair, 2)
          /\ ~NotIssuableBy(res.yielded[i].keypair, CandidateAt(2))
          /\ res.yielded[i].prov = <<CandidateAt(2)>>

\* ---- C28
Running == op = "authorize_states" /\ pc = "running"

\* the states an invocation has been in are START, TEST, CREATE in that
\* order, as far as it got
StatesInOrder ==
    \E n \in 1..3 : res.states = SubSeq(<<"START", "TEST", "CREATE">>, 1, n)

\* the turns the loop can still take: each turn runs check once, and there
\* are no more than two
TurnsLeft == 2 - res.checks

ResourcesBounded ==
    /\ TurnsLeft >= 0
    /\ (Running /\ authorize_continues(res)) => TurnsLeft > 0
    /\ Len(res.keypairs) <= 1
    /\ Len(res.written) <= 1
    /\ res.written # <<>> =>
          /\ args.locations[res.written[1]]
          /\ \A i \in 1..(res.written[1] - 1) : ~args.locations[i]

\* a turn of the loop extends the states by later ones only, and changes the
\* keypair files by at most the one file written
TurnAdvances ==
    (Running /\ pc' = "running") =>
        /\ Len(res'.states) > Len(res.states)
        /\ SubSeq(res'.states, 1, Len(res.states)) = res.states
        /\ res'.state = res'.states[Len(res'.states)]
        /\ TurnsLeft' = TurnsLeft - 1
        /\ keyfiles' = keyfiles \/ (Len(res'.written) = 1 /\ Len(keyfiles') = Len(keyfiles) + 1)

\* C28: authorize only advances START -> TEST -> CREATE and never returns to
\* an earlier state; per invocation it runs check at most twice, creates at
\* most one keypair and writes it to at most one location, the first whose
\* write succeeds; and it terminates, every turn of its loop being one run of
\* check that leaves fewer turns to take.
C28_ThreeStates ==
    /\ [](op = "authorize_states" => (StatesInOrder /\ ResourcesBounded))
    /\ [][TurnAdvances]_vars

\* an invocation that went through all three states, ran check twice, and
\* wrote its keypair to the second location after the first one failed
C28_Witness ==
    /\ op = "authorize_states"
    /\ pc = "done"
    /\ res.states = <<"START", "TEST", "CREATE">>
    /\ res.checks = 2
    /\ Len(res.keypairs) = 1
    /\ res.written = <<2>>
    /\ args.locations = <<FALSE, TRUE>>

\* ---- C29
DependencyAt(i) == DependenciesOf(OpLicense)[i]

\* the i-th dependency does not verify, or names another client
InvalidAt(i) ==
    \/ Unconfirmed(DependencyAt(i))
    \/ Elsewhere(DependencyAt(i))
    \/ ClientMismatch(DependencyAt(i), OpLicense)

\* the timespan of the i-th dependency has no overlap with that of the License
IncompatibleAt(i) ==
    RefEmpty(<<SpanOf(OpLicense.timespan), SpanOf(DependencyAt(i).license.timespan)>>)

InvalidDependencies == {i \in 1..Len(DependenciesOf(OpLicense)) : InvalidAt(i)}

FailingDependencies ==
    {i \in 1..Len(DependenciesOf(OpLicense)) : InvalidAt(i) \/ IncompatibleAt(i)}

\* the dependencies up to which the timespans of the License and of the
\* dependencies so far have no overlap
OverlapEmptyUpTo == {i \in 1..Len(DependenciesOf(OpLicense)) : RefEmpty(SubSeq(OpSpans, 1, i + 1))}

\* the License itself passes the steps before its dependencies are verified
VerifiesDependencies == op = "License" /\ ~Fails2

\* C29, as stated: when more than one dependency of a License is invalid, for
\* any reason (signature, chain, DKIM, machine or timespan incompatibility),
\* the error raised by License.verify names the first failing dependency in
\* dependencies order.
C29_FirstFailingAnyReason ==
    (VerifiesDependencies /\ Cardinality(FailingDependencies) > 1) =>
        /\ res.exc # "none"
        /\ res.at = SetMin(FailingDependencies)

\* C29, amended: dependencies are verified left-to-right in dependencies
\* order, and when more than one dependency is invalid the error raised by
\* License.verify names the first dependency in that order that fails its own
\* verification or the client-key chaining; a timespan incompatibility is
\* reported only when every dependency has verified, and then names the
\* first dependency at which the timespans so far have no overlap.
C29_FirstFailingVerifiedFirst ==
    VerifiesDependencies =>
        /\ InvalidDependencies # {} =>
              /\ res.exc = "LicenseIncompatibility"
              /\ res.step = 4
              /\ res.at = SetMin(InvalidDependencies)
        /\ (InvalidDependencies = {} /\ OverlapEmptyUpTo # {}) =>
              /\ res.exc = "LicenseIncompatibility"
              /\ res.step = 5
              /\ res.at = SetMin(OverlapEmptyUpTo)
        /\ (InvalidDependencies = {} /\ OverlapEmptyUpTo = {}) => res.exc = "none"

\* both dependencies are invalid, the first one is reported
C29_Witness ==
    /\ VerifiesDependencies
    /\ InvalidDependencies = {1, 2}
    /\ IncompatibleAt(2)
    /\ res.step = 4
    /\ res.at = 1

====
